---- MODULE Spec2Model ----
(***************************************************************************)
(* LibrePods daemon: control-plane state machine.                          *)
(*                                                                         *)
(* The daemon runs one cooperative event loop.  Every action below is one  *)
(* event-loop callback (or, for the transport's Connected handler, one     *)
(* step of it: the handler is split at its blocking sends so that the      *)
(* state between two sends is visible; no other callback can run there).   *)
(*                                                                         *)
(* Handlers are written as operators from a "world" record to a world      *)
(* record, so that nested calls (send -> disconnect -> set_state -> state  *)
(* callback -> reset) compose as they do in the C code.                    *)
(***************************************************************************)
EXTENDS Integers, Sequences, FiniteSets, TLC

(***************************************************************************)
(* Bounds of the model.                                                    *)
(***************************************************************************)
NumPeers == 2      \* AAP-capable peers known to BlueZ
NumPlayers == 2    \* MPRIS bus names that can appear on the session bus

Peers == 1..NumPeers
PlayerNames == 1..NumPlayers

\* NULL for char* fields held as TLA+ strings, and for C strings held as
\* sequences of character codes.
NULL == "<NULL>"
NULL_STR == <<-1>>

\* Identity of a peer as BlueZ reports it (Address / Name properties).
PeerAddress(p) == "AA:BB:CC:00:00:0" \o ToString(p)
PeerName(p) == "AirPods " \o ToString(p)

(***************************************************************************)
(* airpods_state.h: enumerations                                           *)
(***************************************************************************)
\* AirPodsModel: the code uses the enumerators only as identities.
AIRPODS_MODEL_UNKNOWN == "AIRPODS_MODEL_UNKNOWN"

NOISE_CONTROL_OFF == 1
NOISE_CONTROL_ANC == 2
NOISE_CONTROL_TRANSPARENCY == 3
NOISE_CONTROL_ADAPTIVE == 4

BATTERY_STATUS_UNKNOWN == 0
BATTERY_STATUS_CHARGING == 1
BATTERY_STATUS_DISCHARGING == 2
BATTERY_STATUS_DISCONNECTED == 4

\* media_control.h
EAR_PAUSE_DISABLED == 0
EAR_PAUSE_ONE_OUT == 1
EAR_PAUSE_BOTH_OUT == 2

\* bluetooth.h
BT_STATE_DISCONNECTED == "DISCONNECTED"
BT_STATE_CONNECTING == "CONNECTING"
BT_STATE_CONNECTED == "CONNECTED"
BT_STATE_ERROR == "ERROR"

(***************************************************************************)
(* aap_protocol.h / aap_protocol.c: constants and pre-built packets.       *)
(* A packet is a sequence of bytes (0..255), indexed from 1: the byte the  *)
(* C code calls data[i] is pkt[i + 1].                                     *)
(***************************************************************************)
AAP_OPCODE_BATTERY == 4
AAP_OPCODE_EAR_DETECTION == 6
AAP_OPCODE_CONTROL == 9
AAP_OPCODE_METADATA == 29
AAP_OPCODE_CA_DETECTION == 75

AAP_CTRL_NOISE_CONTROL == 13
AAP_CTRL_LISTENING_MODES == 26
AAP_CTRL_CONV_AWARENESS == 40
AAP_CTRL_ADAPTIVE_LEVEL == 46

\* Listening-mode bits (the header that defines them is not in the tree;
\* values as documented for sub-opcode 0x1A).
AAP_LISTENING_MODE_OFF == 1
AAP_LISTENING_MODE_TRANSPARENCY == 2
AAP_LISTENING_MODE_ANC == 4
AAP_LISTENING_MODE_ADAPTIVE == 8

AAP_CONTROL_CMD_SIZE == 11

AAP_PKT_HANDSHAKE == <<0, 0, 4, 0, 1, 0, 2, 0, 0, 0, 0, 0, 0, 0, 0, 0>>
AAP_PKT_REQUEST_NOTIFICATIONS == <<4, 0, 4, 0, 15, 0, 255, 255, 255, 255>>
AAP_PKT_SET_FEATURES == <<4, 0, 4, 0, 77, 0, 255, 0, 0, 0, 0, 0, 0, 0>>

AAP_PKT_NC_OFF == <<4, 0, 4, 0, 9, 0, 13, 1, 0, 0, 0>>
AAP_PKT_NC_ANC == <<4, 0, 4, 0, 9, 0, 13, 2, 0, 0, 0>>
AAP_PKT_NC_TRANSPARENCY == <<4, 0, 4, 0, 9, 0, 13, 3, 0, 0, 0>>
AAP_PKT_NC_ADAPTIVE == <<4, 0, 4, 0, 9, 0, 13, 4, 0, 0, 0>>

AAP_PKT_CA_ENABLE == <<4, 0, 4, 0, 9, 0, 40, 1, 0, 0, 0>>
AAP_PKT_CA_DISABLE == <<4, 0, 4, 0, 9, 0, 40, 2, 0, 0, 0>>

\* (uint8_t) conversion of an int
U8(x) == x % 256

(***************************************************************************)
(* aap_protocol.c: builders                                                *)
(***************************************************************************)
\* Faulty variant of aap_build_noise_control_cmd: no case for Adaptive.
aap_build_noise_control_cmd_mut(mode) ==
    CASE mode = NOISE_CONTROL_ANC -> AAP_PKT_NC_ANC
      [] mode = NOISE_CONTROL_TRANSPARENCY -> AAP_PKT_NC_TRANSPARENCY
      [] OTHER -> AAP_PKT_NC_OFF

aap_build_noise_control_cmd(mode) ==
    CASE mode = NOISE_CONTROL_ANC -> AAP_PKT_NC_ANC
      [] mode = NOISE_CONTROL_TRANSPARENCY -> AAP_PKT_NC_TRANSPARENCY
      [] mode = NOISE_CONTROL_ADAPTIVE -> AAP_PKT_NC_ADAPTIVE
      [] OTHER -> AAP_PKT_NC_OFF

\* Faulty variant of aap_build_adaptive_level_cmd: no upper clamp.
aap_build_adaptive_level_cmd_mut(level) ==
    <<4, 0, 4, 0, 9, 0, AAP_CTRL_ADAPTIVE_LEVEL,
      U8(IF level < 0 THEN 0 ELSE level), 0, 0, 0>>

aap_build_adaptive_level_cmd(level) ==
    <<4, 0, 4, 0, 9, 0, AAP_CTRL_ADAPTIVE_LEVEL,
      U8(IF level < 0 THEN 0 ELSE (IF level > 100 THEN 100 ELSE level)),
      0, 0, 0>>

aap_build_conv_awareness_cmd(enable) ==
    IF enable THEN AAP_PKT_CA_ENABLE ELSE AAP_PKT_CA_DISABLE

aap_build_listening_modes_cmd(modes) ==
    <<4, 0, 4, 0, 9, 0, AAP_CTRL_LISTENING_MODES, modes, 0, 0, 0>>

(***************************************************************************)
(* airpods_state.c: strings.  A C string is a sequence of ASCII codes.     *)
(***************************************************************************)
g_ascii_tolower(c) == IF c >= 65 /\ c <= 90 THEN c + 32 ELSE c

\* Character of s at 0-based index i; the terminating NUL past the end.
CharAt(s, i) == IF i < Len(s) THEN s[i + 1] ELSE 0

RECURSIVE StrCaseCmpFrom(_, _, _)
StrCaseCmpFrom(s1, s2, i) ==
    LET c1 == g_ascii_tolower(CharAt(s1, i))
        c2 == g_ascii_tolower(CharAt(s2, i))
    IN IF c1 = 0 \/ c1 # c2 THEN c1 - c2
       ELSE StrCaseCmpFrom(s1, s2, i + 1)

g_ascii_strcasecmp(s1, s2) == StrCaseCmpFrom(s1, s2, 0)

STR_anc == <<97, 110, 99>>
STR_noise_cancellation ==
    <<110, 111, 105, 115, 101, 95, 99, 97, 110, 99, 101, 108, 108, 97, 116,
      105, 111, 110>>
STR_cancellation == <<99, 97, 110, 99, 101, 108, 108, 97, 116, 105, 111, 110>>
STR_transparency ==
    <<116, 114, 97, 110, 115, 112, 97, 114, 101, 110, 99, 121>>
STR_transparent == <<116, 114, 97, 110, 115, 112, 97, 114, 101, 110, 116>>
STR_adaptive == <<97, 100, 97, 112, 116, 105, 118, 101>>
STR_off == <<111, 102, 102>>

\* Faulty variant of noise_control_mode_from_string: names are compared
\* byte for byte.
noise_control_mode_from_string_mut(str) ==
    IF str = NULL_STR THEN NOISE_CONTROL_OFF
    ELSE IF str \in {STR_anc, STR_noise_cancellation, STR_cancellation}
         THEN NOISE_CONTROL_ANC
    ELSE IF str \in {STR_transparency, STR_transparent}
         THEN NOISE_CONTROL_TRANSPARENCY
    ELSE IF str = STR_adaptive THEN NOISE_CONTROL_ADAPTIVE
    ELSE NOISE_CONTROL_OFF

noise_control_mode_from_string(str) ==
    IF str = NULL_STR THEN NOISE_CONTROL_OFF
    ELSE IF \/ g_ascii_strcasecmp(str, STR_anc) = 0
            \/ g_ascii_strcasecmp(str, STR_noise_cancellation) = 0
            \/ g_ascii_strcasecmp(str, STR_cancellation) = 0
         THEN NOISE_CONTROL_ANC
    ELSE IF \/ g_ascii_strcasecmp(str, STR_transparency) = 0
            \/ g_ascii_strcasecmp(str, STR_transparent) = 0
         THEN NOISE_CONTROL_TRANSPARENCY
    ELSE IF g_ascii_strcasecmp(str, STR_adaptive) = 0
         THEN NOISE_CONTROL_ADAPTIVE
    ELSE NOISE_CONTROL_OFF

noise_control_mode_to_string(mode) ==
    CASE mode = NOISE_CONTROL_OFF -> "off"
      [] mode = NOISE_CONTROL_ANC -> "anc"
      [] mode = NOISE_CONTROL_TRANSPARENCY -> "transparency"
      [] mode = NOISE_CONTROL_ADAPTIVE -> "adaptive"
      [] OTHER -> "off"

(***************************************************************************)
(* Program state.                                                          *)
(***************************************************************************)
VARIABLES
    state,              \* app.state: AirPodsState
    bt_conn,            \* app.bt_conn: BluetoothConnection (allocated = non-NULL)
    pending_address,    \* app.pending_address
    pending_name,       \* app.pending_name
    config,             \* app.config: LibrePodsConfig
    media_control,      \* app.media_control: MediaControl (allocated = non-NULL)
    service_connection, \* app.dbus_service->connection # NULL (bus acquired)
    players,            \* session bus: MPRIS player name -> playback status
    config_file,        \* daemon.conf: stored ear_pause_mode
    devices_file,       \* devices.conf: address -> stored listening modes
    open_sockets,       \* number of L2CAP sockets the process holds open
    init_written,       \* initialization frames written to the current socket
    pc,                 \* position inside the transport's Connected handler
    bluez_monitor,      \* app.bluez_monitor: known_devices, and the objects
                        \* the startup walk has still to visit
    bus_name,           \* the g_bus_own_name request: "pending", "acquired", "lost"
    exit_status,        \* whether main() has returned, and with which code
    paused_by_us,       \* history: players the controller paused since the last resume
    policy_fresh,       \* history: no ear-detection call since construction / policy change
    last_event,         \* history: per object path, the kind of the last event the
                        \* BlueZ observer emitted for it
    last_device_signal, \* history: the last DeviceConnected / DeviceDisconnected
                        \* signal on the bus
    obs                 \* what the last callback did (frames, signals, calls)

vars == <<state, bt_conn, pending_address, pending_name, config, media_control,
          service_connection, players, config_file, devices_file,
          open_sockets, init_written, pc, bluez_monitor, bus_name,
          exit_status, paused_by_us, policy_fresh, last_event,
          last_device_signal, obs>>

\* The world a handler runs in: the program state plus the record of what
\* the running callback has done so far.
World ==
    [state |-> state, bt_conn |-> bt_conn,
     pending_address |-> pending_address, pending_name |-> pending_name,
     config |-> config, media_control |-> media_control,
     service_connection |-> service_connection, players |-> players,
     config_file |-> config_file, devices_file |-> devices_file,
     open_sockets |-> open_sockets, init_written |-> init_written, pc |-> pc,
     bluez_monitor |-> bluez_monitor,
     bus_name |-> bus_name, exit_status |-> exit_status,
     tx |-> <<>>, signals |-> <<>>, bt_events |-> <<>>, media |-> <<>>,
     fs |-> <<>>, reply |-> NULL, bluez |-> <<>>]

\* The last element of `events` that is about object path p, or `dflt`.
LastEventFor(events, p, dflt) ==
    LET idx == {i \in 1..Len(events) : events[i].info.object_path = p}
    IN IF idx = {} THEN dflt
       ELSE events[CHOOSE i \in idx : \A j \in idx : j <= i].kind

\* No DeviceConnected or DeviceDisconnected signal has been emitted.
NoDeviceSignal == [name |-> "none", args |-> <<"", "">>]

\* The DeviceConnected and DeviceDisconnected signals of `signals`.
DeviceSignals(signals) ==
    SelectSeq(signals,
              LAMBDA sig : sig.name \in {"DeviceConnected",
                                         "DeviceDisconnected"})

\* The callback `ev` ran and left the world `w`.
Commit(w, ev) ==
    /\ state' = w.state
    /\ bt_conn' = w.bt_conn
    /\ pending_address' = w.pending_address
    /\ pending_name' = w.pending_name
    /\ config' = w.config
    /\ media_control' = w.media_control
    /\ service_connection' = w.service_connection
    /\ players' = w.players
    /\ config_file' = w.config_file
    /\ devices_file' = w.devices_file
    /\ open_sockets' = w.open_sockets
    /\ init_written' = w.init_written
    /\ pc' = w.pc
    /\ bluez_monitor' = w.bluez_monitor
    /\ bus_name' = w.bus_name
    /\ exit_status' = w.exit_status
    /\ paused_by_us' =
         IF \E i \in 1..Len(w.media) : w.media[i].op = "resume" THEN {}
         ELSE paused_by_us \cup
              {w.media[i].player : i \in {j \in 1..Len(w.media) :
                                   w.media[j].op = "Pause" /\ w.media[j].ok}}
    /\ policy_fresh' =
         IF w.media_control.ear_pause_mode # media_control.ear_pause_mode
         THEN TRUE
         ELSE IF \E i \in 1..Len(w.media) :
                    w.media[i].op = "on_ear_detection_changed"
         THEN FALSE
         ELSE policy_fresh
    /\ last_event' =
         [p \in Peers |-> LastEventFor(w.bluez, p, last_event[p])]
    /\ last_device_signal' =
         IF DeviceSignals(w.signals) = <<>> THEN last_device_signal
         ELSE DeviceSignals(w.signals)[Len(DeviceSignals(w.signals))]
    /\ obs' = [ev |-> ev, tx |-> w.tx, signals |-> w.signals,
               bt_events |-> w.bt_events, media |-> w.media,
               fs |-> w.fs, reply |-> w.reply, bluez |-> w.bluez]

(***************************************************************************)
(* airpods_state.c: Device State                                           *)
(***************************************************************************)
BatteryUnavailable ==
    [level |-> -1, status |-> BATTERY_STATUS_UNKNOWN, available |-> FALSE]

airpods_state_init ==
    [connected |-> FALSE,
     device_name |-> NULL,
     device_address |-> NULL,
     model |-> AIRPODS_MODEL_UNKNOWN,
     battery |-> [left |-> BatteryUnavailable, right |-> BatteryUnavailable,
                  case_battery |-> BatteryUnavailable],
     noise_control_mode |-> NOISE_CONTROL_OFF,
     conversational_awareness |-> FALSE,
     adaptive_noise_level |-> 50,
     one_bud_anc_enabled |-> FALSE,
     listening_modes |-> [off_enabled |-> FALSE, transparency_enabled |-> TRUE,
                          anc_enabled |-> TRUE, adaptive_enabled |-> TRUE],
     ear_detection |-> [left_in_ear |-> FALSE, right_in_ear |-> FALSE,
                        primary_left |-> TRUE],
     ear_pause_mode |-> 0]

\* Faulty variant of airpods_state_reset: the battery is left as it was.
airpods_state_reset_mut(s) ==
    [s EXCEPT !.connected = FALSE,
              !.device_name = NULL,
              !.device_address = NULL,
              !.model = AIRPODS_MODEL_UNKNOWN,
              !.noise_control_mode = NOISE_CONTROL_OFF,
              !.conversational_awareness = FALSE,
              !.adaptive_noise_level = 50,
              !.ear_detection.left_in_ear = FALSE,
              !.ear_detection.right_in_ear = FALSE]

airpods_state_reset(s) ==
    [s EXCEPT !.connected = FALSE,
              !.device_name = NULL,
              !.device_address = NULL,
              !.model = AIRPODS_MODEL_UNKNOWN,
              !.battery = [left |-> BatteryUnavailable,
                           right |-> BatteryUnavailable,
                           case_battery |-> BatteryUnavailable],
              !.noise_control_mode = NOISE_CONTROL_OFF,
              !.conversational_awareness = FALSE,
              !.adaptive_noise_level = 50,
              !.ear_detection.left_in_ear = FALSE,
              !.ear_detection.right_in_ear = FALSE]

airpods_state_set_device(s, name, address, model) ==
    [s EXCEPT !.device_name = name,
              !.device_address = address,
              !.model = model,
              !.connected = TRUE]

airpods_state_set_battery(s, left, left_status, right, right_status, case_level, case_status) ==
    [s EXCEPT !.battery =
        [left |-> [level |-> left, status |-> left_status,
                   available |-> (left >= 0)],
         right |-> [level |-> right, status |-> right_status,
                    available |-> (right >= 0)],
         case_battery |-> [level |-> case_level, status |-> case_status,
                           available |-> (case_level >= 0)]]]

airpods_state_set_noise_control(s, mode) ==
    [s EXCEPT !.noise_control_mode = mode]

airpods_state_set_ear_detection(s, left_in_ear, right_in_ear, primary_left) ==
    [s EXCEPT !.ear_detection = [left_in_ear |-> left_in_ear,
                                 right_in_ear |-> right_in_ear,
                                 primary_left |-> primary_left]]

airpods_state_set_conversational_awareness(s, enabled) ==
    [s EXCEPT !.conversational_awareness = enabled]

airpods_state_set_listening_modes(s, off_enabled, transparency_enabled, anc_enabled, adaptive_enabled) ==
    [s EXCEPT !.listening_modes =
        [off_enabled |-> off_enabled,
         transparency_enabled |-> transparency_enabled,
         anc_enabled |-> anc_enabled,
         adaptive_enabled |-> adaptive_enabled]]

(***************************************************************************)
(* airpods_state.h / airpods_state.c: models                               *)
(***************************************************************************)
AIRPODS_MODEL_1 == "AIRPODS_MODEL_1"
AIRPODS_MODEL_2 == "AIRPODS_MODEL_2"
AIRPODS_MODEL_3 == "AIRPODS_MODEL_3"
AIRPODS_MODEL_4 == "AIRPODS_MODEL_4"
AIRPODS_MODEL_4_ANC == "AIRPODS_MODEL_4_ANC"
AIRPODS_MODEL_PRO == "AIRPODS_MODEL_PRO"
AIRPODS_MODEL_PRO_2 == "AIRPODS_MODEL_PRO_2"
AIRPODS_MODEL_PRO_2_USBC == "AIRPODS_MODEL_PRO_2_USBC"
AIRPODS_MODEL_PRO_3 == "AIRPODS_MODEL_PRO_3"
AIRPODS_MODEL_MAX == "AIRPODS_MODEL_MAX"
AIRPODS_MODEL_MAX_USBC == "AIRPODS_MODEL_MAX_USBC"

airpods_model_to_string(model) ==
    CASE model = AIRPODS_MODEL_1 -> "AirPods 1st Gen"
      [] model = AIRPODS_MODEL_2 -> "AirPods 2nd Gen"
      [] model = AIRPODS_MODEL_3 -> "AirPods 3rd Gen"
      [] model = AIRPODS_MODEL_4 -> "AirPods 4th Gen"
      [] model = AIRPODS_MODEL_4_ANC -> "AirPods 4th Gen (ANC)"
      [] model = AIRPODS_MODEL_PRO -> "AirPods Pro"
      [] model = AIRPODS_MODEL_PRO_2 -> "AirPods Pro 2"
      [] model = AIRPODS_MODEL_PRO_2_USBC -> "AirPods Pro 2 (USB-C)"
      [] model = AIRPODS_MODEL_PRO_3 -> "AirPods Pro 3"
      [] model = AIRPODS_MODEL_MAX -> "AirPods Max"
      [] model = AIRPODS_MODEL_MAX_USBC -> "AirPods Max (USB-C)"
      [] OTHER -> "Unknown AirPods"

airpods_model_supports_anc(model) ==
    model \in {AIRPODS_MODEL_PRO, AIRPODS_MODEL_PRO_2, AIRPODS_MODEL_PRO_2_USBC,
               AIRPODS_MODEL_PRO_3, AIRPODS_MODEL_MAX, AIRPODS_MODEL_MAX_USBC,
               AIRPODS_MODEL_4_ANC}

airpods_model_supports_adaptive(model) ==
    model \in {AIRPODS_MODEL_PRO_2, AIRPODS_MODEL_PRO_2_USBC,
               AIRPODS_MODEL_PRO_3, AIRPODS_MODEL_4_ANC}

airpods_model_is_headphones(model) ==
    model \in {AIRPODS_MODEL_MAX, AIRPODS_MODEL_MAX_USBC}

\* model_map[] of airpods_model_from_number, in table order (ASCII codes).
model_map ==
    <<
       [number |-> <<65, 49, 53, 50, 51>>, model |-> AIRPODS_MODEL_1],
       [number |-> <<65, 49, 55, 50, 50>>, model |-> AIRPODS_MODEL_1],
       [number |-> <<65, 50, 48, 51, 50>>, model |-> AIRPODS_MODEL_2],
       [number |-> <<65, 50, 48, 51, 49>>, model |-> AIRPODS_MODEL_2],
       [number |-> <<65, 50, 53, 54, 53>>, model |-> AIRPODS_MODEL_3],
       [number |-> <<65, 50, 53, 54, 52>>, model |-> AIRPODS_MODEL_3],
       [number |-> <<65, 51, 48, 53, 51>>, model |-> AIRPODS_MODEL_4],
       [number |-> <<65, 51, 48, 53, 48>>, model |-> AIRPODS_MODEL_4],
       [number |-> <<65, 51, 48, 53, 52>>, model |-> AIRPODS_MODEL_4],
       [number |-> <<65, 51, 48, 53, 54>>, model |-> AIRPODS_MODEL_4_ANC],
       [number |-> <<65, 51, 48, 53, 53>>, model |-> AIRPODS_MODEL_4_ANC],
       [number |-> <<65, 51, 48, 53, 55>>, model |-> AIRPODS_MODEL_4_ANC],
       [number |-> <<65, 50, 48, 56, 52>>, model |-> AIRPODS_MODEL_PRO],
       [number |-> <<65, 50, 48, 56, 51>>, model |-> AIRPODS_MODEL_PRO],
       [number |-> <<65, 50, 57, 51, 49>>, model |-> AIRPODS_MODEL_PRO_2],
       [number |-> <<65, 50, 54, 57, 57>>, model |-> AIRPODS_MODEL_PRO_2],
       [number |-> <<65, 50, 54, 57, 56>>, model |-> AIRPODS_MODEL_PRO_2],
       [number |-> <<65, 51, 48, 52, 55>>, model |-> AIRPODS_MODEL_PRO_2_USBC],
       [number |-> <<65, 51, 48, 52, 56>>, model |-> AIRPODS_MODEL_PRO_2_USBC],
       [number |-> <<65, 51, 48, 52, 57>>, model |-> AIRPODS_MODEL_PRO_2_USBC],
       [number |-> <<65, 51, 48, 54, 52>>, model |-> AIRPODS_MODEL_PRO_3],
       [number |-> <<65, 51, 48, 54, 53>>, model |-> AIRPODS_MODEL_PRO_3],
       [number |-> <<65, 51, 48, 54, 51>>, model |-> AIRPODS_MODEL_PRO_3],
       [number |-> <<65, 50, 48, 57, 54>>, model |-> AIRPODS_MODEL_MAX],
       [number |-> <<65, 51, 49, 56, 52>>, model |-> AIRPODS_MODEL_MAX_USBC]
    >>

\* Faulty variant of airpods_model_from_number: a model number matches the
\* table entries it is a prefix of.
airpods_model_from_number_mut(model_number) ==
    IF model_number = NULL_STR \/ model_number = <<>>
    THEN AIRPODS_MODEL_UNKNOWN
    ELSE LET hits == {i \in 1..Len(model_map) :
                        /\ Len(model_number) <= Len(model_map[i].number)
                        /\ SubSeq(model_map[i].number, 1, Len(model_number))
                             = model_number}
         IN IF hits = {} THEN AIRPODS_MODEL_UNKNOWN
            ELSE model_map[CHOOSE i \in hits : \A j \in hits : i <= j].model

\* model_number is a C string without its terminating NUL.
airpods_model_from_number(model_number) ==
    IF model_number = NULL_STR \/ model_number = <<>>
    THEN AIRPODS_MODEL_UNKNOWN
    ELSE LET hits == {i \in 1..Len(model_map) :
                        model_map[i].number = model_number}
         IN IF hits = {} THEN AIRPODS_MODEL_UNKNOWN
            ELSE model_map[CHOOSE i \in hits : \A j \in hits : i <= j].model


(***************************************************************************)
(* dbus_service.c: the bus surface.  A signal is recorded in the world's   *)
(* `signals` in the order it is emitted.                                   *)
(***************************************************************************)
SrcProperties ==
    {"Connected", "DeviceName", "DeviceAddress", "DeviceModel", "BatteryLeft",
     "BatteryRight", "BatteryCase", "ChargingLeft", "ChargingRight",
     "ChargingCase", "NoiseControlMode", "ConversationalAwareness",
     "LeftInEar", "RightInEar", "AdaptiveNoiseLevel"}

get_property(s, property_name) ==
    CASE property_name = "Connected" -> s.connected
      [] property_name = "DeviceName" ->
            IF s.device_name # NULL THEN s.device_name ELSE ""
      [] property_name = "DeviceAddress" ->
            IF s.device_address # NULL THEN s.device_address ELSE ""
      [] property_name = "DeviceModel" -> airpods_model_to_string(s.model)
      [] property_name = "BatteryLeft" -> s.battery.left.level
      [] property_name = "BatteryRight" -> s.battery.right.level
      [] property_name = "BatteryCase" -> s.battery.case_battery.level
      [] property_name = "ChargingLeft" ->
            s.battery.left.status = BATTERY_STATUS_CHARGING
      [] property_name = "ChargingRight" ->
            s.battery.right.status = BATTERY_STATUS_CHARGING
      [] property_name = "ChargingCase" ->
            s.battery.case_battery.status = BATTERY_STATUS_CHARGING
      [] property_name = "NoiseControlMode" ->
            noise_control_mode_to_string(s.noise_control_mode)
      [] property_name = "ConversationalAwareness" ->
            s.conversational_awareness
      [] property_name = "LeftInEar" -> s.ear_detection.left_in_ear
      [] property_name = "RightInEar" -> s.ear_detection.right_in_ear
      [] property_name = "AdaptiveNoiseLevel" -> s.adaptive_noise_level

\* Properties of the interface that the get_property in the tree does not
\* serve (listening modes, ear-pause mode, capabilities): read from Device
\* State as the interface description states.
ExtProperties ==
    {"EarPauseMode", "ListeningModeOff", "ListeningModeTransparency",
     "ListeningModeANC", "ListeningModeAdaptive", "IsHeadphones",
     "SupportsANC", "SupportsAdaptive"}

get_property_ext(s, property_name) ==
    CASE property_name = "EarPauseMode" -> s.ear_pause_mode
      [] property_name = "ListeningModeOff" -> s.listening_modes.off_enabled
      [] property_name = "ListeningModeTransparency" ->
            s.listening_modes.transparency_enabled
      [] property_name = "ListeningModeANC" -> s.listening_modes.anc_enabled
      [] property_name = "ListeningModeAdaptive" ->
            s.listening_modes.adaptive_enabled
      [] property_name = "IsHeadphones" -> airpods_model_is_headphones(s.model)
      [] property_name = "SupportsANC" -> airpods_model_supports_anc(s.model)
      [] property_name = "SupportsAdaptive" ->
            airpods_model_supports_adaptive(s.model)

emit_signal(w, signal_name, parameters) ==
    IF ~w.service_connection THEN w
    ELSE [w EXCEPT !.signals =
            Append(@, [name |-> signal_name, args |-> parameters])]

dbus_service_emit_device_connected(w, address, name) ==
    emit_signal(w, "DeviceConnected",
                <<IF address # NULL THEN address ELSE "",
                  IF name # NULL THEN name ELSE "">>)

dbus_service_emit_device_disconnected(w, address, name) ==
    emit_signal(w, "DeviceDisconnected",
                <<IF address # NULL THEN address ELSE "",
                  IF name # NULL THEN name ELSE "">>)

dbus_service_emit_battery_changed(w, left, right, case_battery) ==
    emit_signal(w, "BatteryChanged", <<left, right, case_battery>>)

dbus_service_emit_noise_control_changed(w, mode) ==
    emit_signal(w, "NoiseControlModeChanged",
                <<noise_control_mode_to_string(mode)>>)

dbus_service_emit_ear_detection_changed(w, left_in_ear, right_in_ear) ==
    emit_signal(w, "EarDetectionChanged", <<left_in_ear, right_in_ear>>)

dbus_service_emit_properties_changed(w, property_name) ==
    IF ~w.service_connection THEN w
    ELSE IF property_name \in SrcProperties
         THEN [w EXCEPT !.signals =
                 Append(@, [name |-> "PropertiesChanged",
                            args |-> <<property_name,
                                       get_property(w.state, property_name)>>])]
    ELSE IF property_name \in ExtProperties
         THEN [w EXCEPT !.signals =
                 Append(@, [name |-> "PropertiesChanged",
                            args |-> <<property_name,
                                       get_property_ext(w.state,
                                                        property_name)>>])]
    ELSE w

(***************************************************************************)
(* media_control.c: the media controller.                                  *)
(*                                                                         *)
(* players[n] is the PlaybackStatus player n would report, or "Absent"     *)
(* when n owns no bus name.  `env` holds what the session bus does during  *)
(* the call: list_ok (ListNames answers), query_fail / pause_fail /        *)
(* play_fail (the players whose Get / Pause / Play call returns an error). *)
(* Calls made on the controller and calls it makes on the session bus are  *)
(* recorded in the world's `media`, in order.                              *)
(***************************************************************************)
PlaybackStatus == {"Playing", "Paused", "Stopped"}

MediaEnv(list_ok, query_fail, pause_fail, play_fail) ==
    [list_ok |-> list_ok, query_fail |-> query_fail,
     pause_fail |-> pause_fail, play_fail |-> play_fail]

\* What the bus can do during pause_all: ListNames fails, or any listed
\* player fails its status query, or any player asked to pause fails.
PauseEnvs(pl) ==
    LET present == {n \in PlayerNames : pl[n] # "Absent"}
    IN {MediaEnv(FALSE, {}, {}, {})}
       \cup {MediaEnv(TRUE, qf, pf, {}) :
               qf \in SUBSET present,
               pf \in SUBSET {n \in present : pl[n] = "Playing"}}

\* What the bus can do during resume: any stored player fails its Play.
ResumeEnvs(mc) ==
    {MediaEnv(TRUE, {}, {}, rf) :
        rf \in SUBSET {mc.paused_players[i] :
                          i \in 1..Len(mc.paused_players)}}

MediaEnvs(pl, mc) == PauseEnvs(pl) \cup ResumeEnvs(mc)

media_control_new ==
    [allocated |-> TRUE,
     ear_pause_mode |-> EAR_PAUSE_ONE_OUT,
     paused_players |-> <<>>,
     prev_left_in_ear |-> FALSE,
     prev_right_in_ear |-> FALSE,
     prev_state_valid |-> FALSE]

\* app.media_control == NULL (media_control_new failed)
media_control_null == [media_control_new EXCEPT !.allocated = FALSE]

media_control_set_ear_pause_mode(mc, mode) ==
    IF mc.allocated THEN [mc EXCEPT !.ear_pause_mode = mode] ELSE mc

\* Bus names with the MPRIS prefix, in the order ListNames returns them.
get_mpris_players(w, env) ==
    IF ~env.list_ok THEN <<>>
    ELSE SelectSeq([i \in 1..NumPlayers |-> i],
                   LAMBDA n : w.players[n] # "Absent")

\* PlaybackStatus of a player, NULL when the query fails.
get_player_playback_status(w, env, player_name) ==
    IF player_name \in env.query_fail \/ w.players[player_name] = "Absent"
    THEN NULL
    ELSE w.players[player_name]

MediaCall(op, player, ok, status) ==
    [op |-> op, player |-> player, ok |-> ok, status |-> status]

\* One iteration of the loop of media_control_pause_all.
PauseOne(w, env, player_name) ==
    LET status == get_player_playback_status(w, env, player_name)
        w1 == [w EXCEPT !.media = Append(@, MediaCall("Get", player_name,
                                                      status # NULL, status))]
    IN IF status # NULL /\ status = "Playing"
       THEN LET ok == player_name \notin env.pause_fail
            IN [w1 EXCEPT
                  !.media = Append(@, MediaCall("Pause", player_name, ok, "")),
                  !.players[player_name] = IF ok THEN "Paused" ELSE @,
                  !.media_control.paused_players =
                      IF ok THEN Append(@, player_name) ELSE @]
       ELSE w1

RECURSIVE PauseLoop(_, _, _)
PauseLoop(w, env, names) ==
    IF names = <<>> THEN w
    ELSE PauseLoop(PauseOne(w, env, Head(names)), env, Tail(names))

\* Faulty variant of media_control_pause_all: the previous list is kept.
media_control_pause_all_mut(w, env) ==
    IF ~w.media_control.allocated THEN w
    ELSE LET w1 == [w EXCEPT
                      !.media = Append(Append(@,
                                    MediaCall("pause_all", 0, TRUE, "")),
                                    MediaCall("ListNames", 0, env.list_ok, ""))]
         IN PauseLoop(w1, env, get_mpris_players(w1, env))

media_control_pause_all(w, env) ==
    IF ~w.media_control.allocated THEN w
    ELSE LET w1 == [w EXCEPT
                      !.media = Append(Append(@,
                                    MediaCall("pause_all", 0, TRUE, "")),
                                    MediaCall("ListNames", 0, env.list_ok, "")),
                      !.media_control.paused_players = <<>>]
         IN PauseLoop(w1, env, get_mpris_players(w1, env))

\* One iteration of the loop of media_control_resume.
PlayOne(w, env, player_name) ==
    LET ok == /\ player_name \notin env.play_fail
              /\ w.players[player_name] # "Absent"
    IN [w EXCEPT
          !.media = Append(@, MediaCall("Play", player_name, ok, "")),
          !.players[player_name] = IF ok THEN "Playing" ELSE @]

RECURSIVE PlayLoop(_, _, _)
PlayLoop(w, env, names) ==
    IF names = <<>> THEN w
    ELSE PlayLoop(PlayOne(w, env, Head(names)), env, Tail(names))

\* Faulty variant of media_control_resume: the stored list is kept.
media_control_resume_mut(w, env) ==
    IF ~w.media_control.allocated THEN w
    ELSE LET w1 == [w EXCEPT
                      !.media = Append(@, MediaCall("resume", 0, TRUE, ""))]
         IN PlayLoop(w1, env, w1.media_control.paused_players)

media_control_resume(w, env) ==
    IF ~w.media_control.allocated THEN w
    ELSE LET w1 == [w EXCEPT
                      !.media = Append(@, MediaCall("resume", 0, TRUE, ""))]
             w2 == PlayLoop(w1, env, w1.media_control.paused_players)
         IN [w2 EXCEPT !.media_control.paused_players = <<>>]

\* The "Out" and "In" predicates of an ear-pause mode.
\* Faulty variant of PodsOut: Both-Out counts one removed pod as Out.
PodsOut_mut(mode, left_in_ear, right_in_ear) ==
    CASE mode = EAR_PAUSE_ONE_OUT -> ~left_in_ear \/ ~right_in_ear
      [] mode = EAR_PAUSE_BOTH_OUT -> ~left_in_ear \/ ~right_in_ear
      [] OTHER -> FALSE

PodsOut(mode, left_in_ear, right_in_ear) ==
    CASE mode = EAR_PAUSE_ONE_OUT -> ~left_in_ear \/ ~right_in_ear
      [] mode = EAR_PAUSE_BOTH_OUT -> ~left_in_ear /\ ~right_in_ear
      [] OTHER -> FALSE

PodsIn(mode, left_in_ear, right_in_ear) ==
    CASE mode = EAR_PAUSE_ONE_OUT -> left_in_ear /\ right_in_ear
      [] mode = EAR_PAUSE_BOTH_OUT -> left_in_ear \/ right_in_ear
      [] OTHER -> FALSE

media_control_on_ear_detection_changed(w, env, left_in_ear, right_in_ear) ==
    LET mc == w.media_control
        mode == mc.ear_pause_mode
        w0 == [w EXCEPT !.media = Append(@,
                  MediaCall("on_ear_detection_changed", 0, TRUE, ""))]
    IN IF ~mc.allocated \/ mode = EAR_PAUSE_DISABLED THEN w0
       ELSE IF mode \notin {EAR_PAUSE_ONE_OUT, EAR_PAUSE_BOTH_OUT} THEN w0
       ELSE
         LET pods_out == PodsOut(mode, left_in_ear, right_in_ear)
             pods_in == PodsIn(mode, left_in_ear, right_in_ear)
             prev_pods_out == PodsOut(mode, mc.prev_left_in_ear,
                                      mc.prev_right_in_ear)
             should_pause == mc.prev_state_valid /\ ~prev_pods_out /\ pods_out
             should_resume == mc.prev_state_valid /\ prev_pods_out /\ pods_in
             w1 == [w0 EXCEPT !.media_control.prev_left_in_ear = left_in_ear,
                              !.media_control.prev_right_in_ear = right_in_ear,
                              !.media_control.prev_state_valid = TRUE]
         IN IF should_pause THEN media_control_pause_all(w1, env)
            ELSE IF should_resume THEN media_control_resume(w1, env)
            ELSE w1

(***************************************************************************)
(* aap_protocol.c: parser.  D(data, i) is the C expression data[i].        *)
(***************************************************************************)
D(data, i) == data[i + 1]

AAP_PARSE_OK == "AAP_PARSE_OK"
AAP_PARSE_INCOMPLETE == "AAP_PARSE_INCOMPLETE"
AAP_PARSE_INVALID_HEADER == "AAP_PARSE_INVALID_HEADER"
AAP_PARSE_UNKNOWN_OPCODE == "AAP_PARSE_UNKNOWN_OPCODE"
AAP_PARSE_MALFORMED == "AAP_PARSE_MALFORMED"

AAP_PKT_TYPE_UNKNOWN == "AAP_PKT_TYPE_UNKNOWN"
AAP_PKT_TYPE_BATTERY == "AAP_PKT_TYPE_BATTERY"
AAP_PKT_TYPE_EAR_DETECTION == "AAP_PKT_TYPE_EAR_DETECTION"
AAP_PKT_TYPE_NOISE_CONTROL == "AAP_PKT_TYPE_NOISE_CONTROL"
AAP_PKT_TYPE_CONV_AWARENESS == "AAP_PKT_TYPE_CONV_AWARENESS"
AAP_PKT_TYPE_CA_DETECTION == "AAP_PKT_TYPE_CA_DETECTION"
AAP_PKT_TYPE_LISTENING_MODES == "AAP_PKT_TYPE_LISTENING_MODES"
AAP_PKT_TYPE_METADATA == "AAP_PKT_TYPE_METADATA"

\* (x & bit) != 0 for a single-bit mask
BitSet(x, bit) == (x \div bit) % 2 = 1

Parsed(result, type, payload) ==
    [result |-> result, type |-> type, data |-> payload]

aap_has_valid_header(data) ==
    /\ Len(data) >= 4
    /\ D(data, 0) = 4 /\ D(data, 1) = 0 /\ D(data, 2) = 4 /\ D(data, 3) = 0

BatteryStatusOf(status) ==
    CASE status = 1 -> BATTERY_STATUS_CHARGING
      [] status = 2 -> BATTERY_STATUS_DISCHARGING
      [] status = 4 -> BATTERY_STATUS_DISCONNECTED
      [] OTHER -> BATTERY_STATUS_UNKNOWN

\* Faulty variant of BatteryComponent: the level byte is stored as it is.
BatteryComponent_mut(data, i, battery) ==
    LET offset == 7 + (i * 5)
        component == D(data, offset)
        lvl == D(data, offset + 2)
        bat_status == BatteryStatusOf(D(data, offset + 3))
    IN CASE component = 1 \/ component = 4 ->
              [battery EXCEPT !.left_level = lvl, !.left_status = bat_status]
         [] component = 2 ->
              [battery EXCEPT !.right_level = lvl, !.right_status = bat_status]
         [] component = 8 ->
              [battery EXCEPT !.case_level = lvl, !.case_status = bat_status]
         [] OTHER -> battery

\* One iteration of the component loop of aap_parse_battery.
BatteryComponent(data, i, battery) ==
    LET offset == 7 + (i * 5)
        component == D(data, offset)
        level == D(data, offset + 2)
        bat_status == BatteryStatusOf(D(data, offset + 3))
        lvl == IF level <= 100 THEN level ELSE -1
    IN CASE component = 1 \/ component = 4 ->
              [battery EXCEPT !.left_level = lvl, !.left_status = bat_status]
         [] component = 2 ->
              [battery EXCEPT !.right_level = lvl, !.right_status = bat_status]
         [] component = 8 ->
              [battery EXCEPT !.case_level = lvl, !.case_status = bat_status]
         [] OTHER -> battery

RECURSIVE BatteryLoop(_, _, _, _)
BatteryLoop(data, count, i, battery) ==
    IF i >= count THEN battery
    ELSE BatteryLoop(data, count, i + 1, BatteryComponent(data, i, battery))

aap_parse_battery(data) ==
    IF Len(data) < 12
    THEN Parsed(AAP_PARSE_INCOMPLETE, AAP_PKT_TYPE_BATTERY, <<>>)
    ELSE IF D(data, 4) # AAP_OPCODE_BATTERY \/ D(data, 5) # 0
    THEN Parsed(AAP_PARSE_MALFORMED, AAP_PKT_TYPE_BATTERY, <<>>)
    ELSE IF D(data, 6) = 0 \/ D(data, 6) > 3
    THEN Parsed(AAP_PARSE_MALFORMED, AAP_PKT_TYPE_BATTERY, <<>>)
    ELSE IF Len(data) < 7 + (D(data, 6) * 5)
    THEN Parsed(AAP_PARSE_INCOMPLETE, AAP_PKT_TYPE_BATTERY, <<>>)
    ELSE Parsed(AAP_PARSE_OK, AAP_PKT_TYPE_BATTERY,
                BatteryLoop(data, D(data, 6), 0,
                            [left_level |-> -1, right_level |-> -1,
                             case_level |-> -1,
                             left_status |-> BATTERY_STATUS_UNKNOWN,
                             right_status |-> BATTERY_STATUS_UNKNOWN,
                             case_status |-> BATTERY_STATUS_UNKNOWN]))

\* Faulty variant of aap_parse_ear_detection: every status but "out"
\* counts as in-ear.
aap_parse_ear_detection_mut(data) ==
    IF Len(data) < 8
    THEN Parsed(AAP_PARSE_INCOMPLETE, AAP_PKT_TYPE_EAR_DETECTION, <<>>)
    ELSE IF D(data, 4) # AAP_OPCODE_EAR_DETECTION \/ D(data, 5) # 0
    THEN Parsed(AAP_PARSE_MALFORMED, AAP_PKT_TYPE_EAR_DETECTION, <<>>)
    ELSE Parsed(AAP_PARSE_OK, AAP_PKT_TYPE_EAR_DETECTION,
                [primary_in_ear |-> (D(data, 6) # 1),
                 secondary_in_ear |-> (D(data, 7) # 1),
                 primary_left |-> TRUE])

aap_parse_ear_detection(data) ==
    IF Len(data) < 8
    THEN Parsed(AAP_PARSE_INCOMPLETE, AAP_PKT_TYPE_EAR_DETECTION, <<>>)
    ELSE IF D(data, 4) # AAP_OPCODE_EAR_DETECTION \/ D(data, 5) # 0
    THEN Parsed(AAP_PARSE_MALFORMED, AAP_PKT_TYPE_EAR_DETECTION, <<>>)
    ELSE Parsed(AAP_PARSE_OK, AAP_PKT_TYPE_EAR_DETECTION,
                [primary_in_ear |-> (D(data, 6) = 0),
                 secondary_in_ear |-> (D(data, 7) = 0),
                 primary_left |-> TRUE])

aap_parse_noise_control(data) ==
    IF Len(data) < 8
    THEN Parsed(AAP_PARSE_INCOMPLETE, AAP_PKT_TYPE_NOISE_CONTROL, <<>>)
    ELSE IF D(data, 4) # AAP_OPCODE_CONTROL
            \/ D(data, 6) # AAP_CTRL_NOISE_CONTROL
    THEN Parsed(AAP_PARSE_MALFORMED, AAP_PKT_TYPE_NOISE_CONTROL, <<>>)
    ELSE Parsed(AAP_PARSE_OK, AAP_PKT_TYPE_NOISE_CONTROL,
                CASE D(data, 7) = 1 -> NOISE_CONTROL_OFF
                  [] D(data, 7) = 2 -> NOISE_CONTROL_ANC
                  [] D(data, 7) = 3 -> NOISE_CONTROL_TRANSPARENCY
                  [] D(data, 7) = 4 -> NOISE_CONTROL_ADAPTIVE
                  [] OTHER -> NOISE_CONTROL_OFF)

\* One of the three string loops of aap_parse_metadata: copies bytes from
\* pos into a field of `size` chars; yields the string and the new pos.
RECURSIVE MetadataField(_, _, _, _)
MetadataField(data, pos, size, acc) ==
    IF pos < Len(data) /\ D(data, pos) # 0 /\ Len(acc) < size - 1
    THEN MetadataField(data, pos + 1, size, Append(acc, D(data, pos)))
    ELSE [str |-> acc,
          pos |-> IF pos < Len(data) /\ D(data, pos) = 0 THEN pos + 1 ELSE pos]

aap_parse_metadata(data) ==
    IF Len(data) < 12
    THEN Parsed(AAP_PARSE_INCOMPLETE, AAP_PKT_TYPE_METADATA, <<>>)
    ELSE LET name == MetadataField(data, 12, 64, <<>>)
             number == MetadataField(data, name.pos, 16, <<>>)
             maker == MetadataField(data, number.pos, 32, <<>>)
         IN Parsed(AAP_PARSE_OK, AAP_PKT_TYPE_METADATA,
                   [device_name |-> name.str, model_number |-> number.str,
                    manufacturer |-> maker.str])

parse_control_packet(data) ==
    IF Len(data) < 8
    THEN Parsed(AAP_PARSE_INCOMPLETE, AAP_PKT_TYPE_UNKNOWN, <<>>)
    ELSE CASE D(data, 6) = AAP_CTRL_NOISE_CONTROL ->
                aap_parse_noise_control(data)
           [] D(data, 6) = AAP_CTRL_CONV_AWARENESS ->
                Parsed(AAP_PARSE_OK, AAP_PKT_TYPE_CONV_AWARENESS,
                       D(data, 7) = 1)
           [] D(data, 6) = AAP_CTRL_LISTENING_MODES ->
                Parsed(AAP_PARSE_OK, AAP_PKT_TYPE_LISTENING_MODES,
                       [raw_value |-> D(data, 7),
                        off_enabled |->
                            BitSet(D(data, 7), AAP_LISTENING_MODE_OFF),
                        transparency_enabled |->
                            BitSet(D(data, 7), AAP_LISTENING_MODE_TRANSPARENCY),
                        anc_enabled |->
                            BitSet(D(data, 7), AAP_LISTENING_MODE_ANC),
                        adaptive_enabled |->
                            BitSet(D(data, 7), AAP_LISTENING_MODE_ADAPTIVE)])
           [] OTHER -> Parsed(AAP_PARSE_OK, AAP_PKT_TYPE_UNKNOWN, <<>>)

aap_parse_packet(data) ==
    IF ~aap_has_valid_header(data)
    THEN Parsed(AAP_PARSE_INVALID_HEADER, AAP_PKT_TYPE_UNKNOWN, <<>>)
    ELSE IF Len(data) < 5
    THEN Parsed(AAP_PARSE_INCOMPLETE, AAP_PKT_TYPE_UNKNOWN, <<>>)
    ELSE CASE D(data, 4) = AAP_OPCODE_BATTERY -> aap_parse_battery(data)
           [] D(data, 4) = AAP_OPCODE_EAR_DETECTION ->
                aap_parse_ear_detection(data)
           [] D(data, 4) = AAP_OPCODE_CONTROL -> parse_control_packet(data)
           [] D(data, 4) = AAP_OPCODE_CA_DETECTION ->
                Parsed(AAP_PARSE_OK, AAP_PKT_TYPE_CA_DETECTION, <<>>)
           [] D(data, 4) = AAP_OPCODE_METADATA -> aap_parse_metadata(data)
           [] OTHER ->
                Parsed(AAP_PARSE_UNKNOWN_OPCODE, AAP_PKT_TYPE_UNKNOWN, <<>>)

(***************************************************************************)
(* config.c.  config_file is daemon.conf: whether it exists and the        *)
(* ear_pause_mode key it holds; devices_file is devices.conf: per address, *)
(* <<>> (no group) or the four stored flags.  `ok` is whether the write to *)
(* disk succeeds.  File operations are recorded in the world's `fs`.       *)
(***************************************************************************)
config_get_defaults == [ear_pause_mode |-> 1]

config_save(w, ok) ==
    [w EXCEPT
       !.fs = Append(@, [op |-> "config_save", ok |-> ok]),
       !.config_file = IF ok THEN [exists |-> TRUE,
                                   ear_pause_mode |-> w.config.ear_pause_mode]
                       ELSE @]

\* config_load on a file that exists and holds the key.
ConfigLoaded(stored) ==
    [ear_pause_mode |-> IF stored < 0 \/ stored > 2 THEN 1 ELSE stored]

config_save_device_listening_modes(w, device_address, modes, ok) ==
    IF device_address = NULL \/ device_address = "" THEN w
    ELSE [w EXCEPT
            !.fs = Append(@, [op |-> "config_save_device_listening_modes",
                              ok |-> ok]),
            !.devices_file[device_address] = IF ok THEN modes ELSE @]

(***************************************************************************)
(* main.c: the transport's state observer.  The Connected branch is split  *)
(* at its three sends: this operator is its first part (attach), the parts *)
(* that follow are the operators on_bt_state_changed_* below, sequenced by *)
(* pc.                                                                     *)
(***************************************************************************)
bt_connection_attach_to_mainloop(w) ==
    IF w.bt_conn.socket_fd < 0 \/ w.bt_conn.source THEN w
    ELSE [w EXCEPT !.bt_conn.source = TRUE]

on_bt_state_changed(w, bt_state) ==
    CASE bt_state = BT_STATE_CONNECTED ->
            [bt_connection_attach_to_mainloop(w) EXCEPT
                !.pc = "send_handshake"]
      [] bt_state = BT_STATE_DISCONNECTED ->
            LET w1 == IF w.state.connected
                      THEN dbus_service_emit_device_disconnected(
                               w, w.state.device_address, w.state.device_name)
                      ELSE w
                w2 == [w1 EXCEPT !.state = airpods_state_reset(@)]
            IN dbus_service_emit_properties_changed(w2, "Connected")
      [] OTHER -> w

(***************************************************************************)
(* bluetooth.c: the L2CAP transport.  socket_fd is -1 or an open           *)
(* descriptor (0); source is whether the event-loop source is attached.    *)
(* Every state change is recorded in the world's `bt_events`, every send   *)
(* attempt in `tx` with its result: "ok" (written), "refused" (not         *)
(* connected, nothing written), "reset" (send failed with ECONNRESET,      *)
(* EPIPE or ENOTCONN) or "other" (send failed with another errno).         *)
(***************************************************************************)
bt_connection_new ==
    [allocated |-> TRUE, socket_fd |-> -1, state |-> BT_STATE_DISCONNECTED,
     address |-> NULL, source |-> FALSE]

\* app.bt_conn == NULL
bt_conn_null == [bt_connection_new EXCEPT !.allocated = FALSE]

set_state(w, bt_state) ==
    on_bt_state_changed(
        [w EXCEPT !.bt_conn.state = bt_state,
                  !.bt_events = Append(@, bt_state)],
        bt_state)

bt_connection_disconnect(w) ==
    LET w1 == [w EXCEPT !.bt_conn.source = FALSE]
        w2 == IF w1.bt_conn.socket_fd >= 0
              THEN [w1 EXCEPT !.bt_conn.socket_fd = -1,
                              !.open_sockets = @ - 1]
              ELSE w1
    IN IF w2.bt_conn.state # BT_STATE_DISCONNECTED
       THEN set_state(w2, BT_STATE_DISCONNECTED)
       ELSE w2

bt_connection_is_connected(w) == w.bt_conn.state = BT_STATE_CONNECTED

SendResults == {"ok", "reset", "other"}

InitFrames ==
    {AAP_PKT_HANDSHAKE, AAP_PKT_SET_FEATURES, AAP_PKT_REQUEST_NOTIFICATIONS}

\* Faulty variant of bt_connection_send: no check of the socket and of
\* the state.
bt_connection_send_mut(w, data, res) ==
    LET w1 == [w EXCEPT
                 !.tx = Append(@, [data |-> data, res |-> res]),
                 !.init_written =
                     IF res = "ok" /\ data \in InitFrames
                     THEN Append(@, data) ELSE @]
    IN IF res = "reset" THEN bt_connection_disconnect(w1) ELSE w1

bt_connection_send(w, data, res) ==
    IF w.bt_conn.socket_fd < 0 \/ w.bt_conn.state # BT_STATE_CONNECTED
    THEN [w EXCEPT !.tx = Append(@, [data |-> data, res |-> "refused"])]
    ELSE LET w1 == [w EXCEPT
                      !.tx = Append(@, [data |-> data, res |-> res]),
                      !.init_written =
                          IF res = "ok" /\ data \in InitFrames
                          THEN Append(@, data) ELSE @]
         IN IF res = "reset" THEN bt_connection_disconnect(w1) ELSE w1

ConnectResults == {"ok", "socket_failed", "connect_failed"}

\* Faulty variant of bt_connection_connect: no check of the state.
bt_connection_connect_mut(w, address, res) ==
    IF res = "socket_failed"
    THEN set_state([w EXCEPT !.bt_conn.socket_fd = -1], BT_STATE_ERROR)
    ELSE LET w1 == [w EXCEPT !.bt_conn.socket_fd = 0,
                             !.open_sockets = @ + 1,
                             !.init_written = <<>>,
                             !.bt_conn.address = address]
             w2 == set_state(w1, BT_STATE_CONNECTING)
         IN IF res = "connect_failed"
            THEN set_state([w2 EXCEPT !.bt_conn.socket_fd = -1,
                                      !.open_sockets = @ - 1],
                           BT_STATE_ERROR)
            ELSE set_state(w2, BT_STATE_CONNECTED)

bt_connection_connect(w, address, res) ==
    IF w.bt_conn.state # BT_STATE_DISCONNECTED THEN w
    ELSE IF res = "socket_failed"
    THEN set_state([w EXCEPT !.bt_conn.socket_fd = -1], BT_STATE_ERROR)
    ELSE LET w1 == [w EXCEPT !.bt_conn.socket_fd = 0,
                             !.open_sockets = @ + 1,
                             !.init_written = <<>>,
                             !.bt_conn.address = address]
             w2 == set_state(w1, BT_STATE_CONNECTING)
         IN IF res = "connect_failed"
            THEN set_state([w2 EXCEPT !.bt_conn.socket_fd = -1,
                                      !.open_sockets = @ - 1],
                           BT_STATE_ERROR)
            ELSE set_state(w2, BT_STATE_CONNECTED)

(***************************************************************************)
(* main.c: the rest of the Connected branch of on_bt_state_changed.        *)
(***************************************************************************)
on_bt_state_changed_send_handshake(w, res) ==
    [bt_connection_send(w, AAP_PKT_HANDSHAKE, res) EXCEPT
        !.pc = "send_set_features"]

on_bt_state_changed_send_set_features(w, res) ==
    [bt_connection_send(w, AAP_PKT_SET_FEATURES, res) EXCEPT
        !.pc = "send_request_notifications"]

on_bt_state_changed_send_request_notifications(w, res) ==
    [bt_connection_send(w, AAP_PKT_REQUEST_NOTIFICATIONS, res) EXCEPT
        !.pc = "set_device"]

on_bt_state_changed_set_device(w) ==
    LET w1 == [w EXCEPT !.state = airpods_state_set_device(
                                      @, w.pending_name, w.pending_address,
                                      AIRPODS_MODEL_UNKNOWN),
                        !.pc = "idle"]
        w2 == dbus_service_emit_device_connected(w1, w1.pending_address,
                                                 w1.pending_name)
        w3 == dbus_service_emit_properties_changed(w2, "Connected")
        w4 == dbus_service_emit_properties_changed(w3, "DeviceName")
    IN dbus_service_emit_properties_changed(w4, "DeviceAddress")

(***************************************************************************)
(* main.c: connection management and BlueZ callbacks                       *)
(***************************************************************************)
\* Faulty variant of connect_to_airpods: no check for a connected transport.
connect_to_airpods_mut(w, address, name, res) ==
    LET w1 == [w EXCEPT !.pending_address = address,
                        !.pending_name = name,
                        !.bt_conn = IF @.allocated THEN @
                                    ELSE bt_connection_new]
    IN bt_connection_connect(w1, address, res)

connect_to_airpods(w, address, name, res) ==
    IF w.bt_conn.allocated /\ bt_connection_is_connected(w) THEN w
    ELSE LET w1 == [w EXCEPT !.pending_address = address,
                             !.pending_name = name,
                             !.bt_conn = IF @.allocated THEN @
                                         ELSE bt_connection_new]
         IN bt_connection_connect(w1, address, res)

disconnect_from_airpods(w) ==
    IF w.bt_conn.allocated THEN bt_connection_disconnect(w) ELSE w

on_bluez_device_connected(w, device, res) ==
    connect_to_airpods(w, device.address, device.name, res)

on_bluez_device_disconnected(w, device) == disconnect_from_airpods(w)

(***************************************************************************)
(* main.c: received frames                                                 *)
(***************************************************************************)
EmitAll(w, props) ==
    LET RECURSIVE Go(_, _)
        Go(ww, ps) == IF ps = <<>> THEN ww
                      ELSE Go(dbus_service_emit_properties_changed(
                                  ww, Head(ps)), Tail(ps))
    IN Go(w, props)

\* Faulty variant of on_bt_data_received: the noise-control and
\* conversational-awareness branches publish before they update Device
\* State; the other frames are dropped.
on_bt_data_received_mut(w, data, env) ==
    LET packet == aap_parse_packet(data)
        pd == packet.data
    IN IF packet.result # AAP_PARSE_OK THEN w
       ELSE CASE packet.type = AAP_PKT_TYPE_NOISE_CONTROL ->
              LET w1 == dbus_service_emit_noise_control_changed(w, pd)
                  w2 == dbus_service_emit_properties_changed(
                            w1, "NoiseControlMode")
              IN [w2 EXCEPT
                    !.state = airpods_state_set_noise_control(@, pd)]
         [] packet.type = AAP_PKT_TYPE_CONV_AWARENESS ->
              LET w1 == dbus_service_emit_properties_changed(
                            w, "ConversationalAwareness")
              IN [w1 EXCEPT !.state =
                    airpods_state_set_conversational_awareness(@, pd)]
         [] OTHER -> w

on_bt_data_received(w, data, env) ==
    LET packet == aap_parse_packet(data)
        pd == packet.data
    IN IF packet.result # AAP_PARSE_OK THEN w
       ELSE CASE packet.type = AAP_PKT_TYPE_BATTERY ->
              LET w1 == [w EXCEPT !.state = airpods_state_set_battery(
                            @, pd.left_level, pd.left_status, pd.right_level,
                            pd.right_status, pd.case_level, pd.case_status)]
                  w2 == dbus_service_emit_battery_changed(
                            w1, pd.left_level, pd.right_level, pd.case_level)
              IN EmitAll(w2, <<"BatteryLeft", "BatteryRight", "BatteryCase">>)
         [] packet.type = AAP_PKT_TYPE_EAR_DETECTION ->
              LET w1 == [w EXCEPT !.state = airpods_state_set_ear_detection(
                            @, pd.primary_in_ear, pd.secondary_in_ear,
                            pd.primary_left)]
                  w2 == dbus_service_emit_ear_detection_changed(
                            w1, w1.state.ear_detection.left_in_ear,
                            w1.state.ear_detection.right_in_ear)
                  w3 == EmitAll(w2, <<"LeftInEar", "RightInEar">>)
              IN IF w3.media_control.allocated
                 THEN media_control_on_ear_detection_changed(
                          w3, env, w3.state.ear_detection.left_in_ear,
                          w3.state.ear_detection.right_in_ear)
                 ELSE w3
         [] packet.type = AAP_PKT_TYPE_NOISE_CONTROL ->
              LET w1 == [w EXCEPT
                           !.state = airpods_state_set_noise_control(@, pd)]
                  w2 == dbus_service_emit_noise_control_changed(w1, pd)
              IN dbus_service_emit_properties_changed(w2, "NoiseControlMode")
         [] packet.type = AAP_PKT_TYPE_CONV_AWARENESS ->
              dbus_service_emit_properties_changed(
                  [w EXCEPT !.state =
                      airpods_state_set_conversational_awareness(@, pd)],
                  "ConversationalAwareness")
         [] packet.type = AAP_PKT_TYPE_LISTENING_MODES ->
              EmitAll([w EXCEPT !.state = airpods_state_set_listening_modes(
                          @, pd.off_enabled, pd.transparency_enabled,
                          pd.anc_enabled, pd.adaptive_enabled)],
                      <<"ListeningModeOff", "ListeningModeTransparency",
                        "ListeningModeANC", "ListeningModeAdaptive">>)
         [] packet.type = AAP_PKT_TYPE_METADATA ->
              LET detected_model == airpods_model_from_number(pd.model_number)
              IN IF detected_model # AIRPODS_MODEL_UNKNOWN
                 THEN EmitAll([w EXCEPT !.state.model = detected_model],
                              <<"DeviceModel", "IsHeadphones", "SupportsANC",
                                "SupportsAdaptive">>)
                 ELSE w
         [] OTHER -> w

(***************************************************************************)
(* bluetooth.c: the event-loop source of the socket.  revents is the set   *)
(* of poll flags; recv is what recv() returns when the source reads:       *)
(* <<"data", frame>>, <<"zero">>, <<"again">> (EAGAIN / EWOULDBLOCK) or    *)
(* <<"error">>.                                                            *)
(***************************************************************************)
bt_source_check(revents) == "IN" \in revents

\* Faulty variant of bt_source_dispatch: a malformed frame closes the
\* channel.
bt_source_dispatch_mut(w, revents, recv, env) ==
    IF revents \cap {"HUP", "ERR", "NVAL"} # {}
    THEN bt_connection_disconnect(w)
    ELSE IF "IN" \in revents
    THEN CASE recv[1] = "error" -> bt_connection_disconnect(w)
           [] recv[1] = "zero" -> bt_connection_disconnect(w)
           [] recv[1] = "data" ->
                IF aap_parse_packet(recv[2]).result = AAP_PARSE_MALFORMED
                THEN bt_connection_disconnect(w)
                ELSE on_bt_data_received(w, recv[2], env)
           [] OTHER -> w
    ELSE w

bt_source_dispatch(w, revents, recv, env) ==
    IF revents \cap {"HUP", "ERR", "NVAL"} # {}
    THEN bt_connection_disconnect(w)
    ELSE IF "IN" \in revents
    THEN CASE recv[1] = "error" -> bt_connection_disconnect(w)
           [] recv[1] = "zero" -> bt_connection_disconnect(w)
           [] recv[1] = "data" -> on_bt_data_received(w, recv[2], env)
           [] OTHER -> w
    ELSE w

(***************************************************************************)
(* main.c: bus method callbacks                                            *)
(***************************************************************************)
on_set_noise_control(w, mode, res) ==
    IF ~w.bt_conn.allocated \/ ~bt_connection_is_connected(w) THEN w
    ELSE bt_connection_send(w, aap_build_noise_control_cmd(mode), res)

on_set_conv_awareness(w, enabled, res) ==
    IF ~w.bt_conn.allocated \/ ~bt_connection_is_connected(w) THEN w
    ELSE bt_connection_send(w, aap_build_conv_awareness_cmd(enabled), res)

on_set_adaptive_level(w, level, res) ==
    IF ~w.bt_conn.allocated \/ ~bt_connection_is_connected(w) THEN w
    ELSE bt_connection_send(w, aap_build_adaptive_level_cmd(level), res)

\* Faulty variant of on_set_ear_pause_mode: refused while not connected.
on_set_ear_pause_mode_mut(w, mode, save_ok) ==
    IF ~w.bt_conn.allocated \/ ~bt_connection_is_connected(w) THEN w
    ELSE LET w1 == [w EXCEPT
                      !.state.ear_pause_mode = mode,
                      !.media_control =
                          media_control_set_ear_pause_mode(@, mode),
                      !.config.ear_pause_mode = mode]
         IN dbus_service_emit_properties_changed(config_save(w1, save_ok),
                                                 "EarPauseMode")

on_set_ear_pause_mode(w, mode, save_ok) ==
    LET w1 == [w EXCEPT
                 !.state.ear_pause_mode = mode,
                 !.media_control = media_control_set_ear_pause_mode(@, mode),
                 !.config.ear_pause_mode = mode]
    IN dbus_service_emit_properties_changed(config_save(w1, save_ok),
                                            "EarPauseMode")

ListeningModesMask(off, transparency, anc, adaptive) ==
    (IF off THEN AAP_LISTENING_MODE_OFF ELSE 0)
    + (IF transparency THEN AAP_LISTENING_MODE_TRANSPARENCY ELSE 0)
    + (IF anc THEN AAP_LISTENING_MODE_ANC ELSE 0)
    + (IF adaptive THEN AAP_LISTENING_MODE_ADAPTIVE ELSE 0)

\* Faulty variant of on_set_listening_modes: one enabled mode is accepted.
on_set_listening_modes_mut(w, off, transparency, anc, adaptive, res, save_ok) ==
    IF ~w.bt_conn.allocated \/ ~bt_connection_is_connected(w) THEN w
    ELSE LET modes == ListeningModesMask(off, transparency, anc, adaptive)
             count == (IF off THEN 1 ELSE 0) + (IF transparency THEN 1 ELSE 0)
                      + (IF anc THEN 1 ELSE 0) + (IF adaptive THEN 1 ELSE 0)
         IN IF count < 1 THEN w
            ELSE
              LET w1 == bt_connection_send(
                            w, aap_build_listening_modes_cmd(modes), res)
                  w2 == [w1 EXCEPT !.state = airpods_state_set_listening_modes(
                                       @, off, transparency, anc, adaptive)]
                  w3 == config_save_device_listening_modes(
                            w2, w2.state.device_address,
                            <<off, transparency, anc, adaptive>>, save_ok)
              IN EmitAll(w3, <<"ListeningModeOff",
                               "ListeningModeTransparency",
                               "ListeningModeANC", "ListeningModeAdaptive">>)

on_set_listening_modes(w, off, transparency, anc, adaptive, res, save_ok) ==
    IF ~w.bt_conn.allocated \/ ~bt_connection_is_connected(w) THEN w
    ELSE LET modes == ListeningModesMask(off, transparency, anc, adaptive)
             count == (IF off THEN 1 ELSE 0) + (IF transparency THEN 1 ELSE 0)
                      + (IF anc THEN 1 ELSE 0) + (IF adaptive THEN 1 ELSE 0)
         IN IF count < 2 THEN w
            ELSE
              LET w1 == bt_connection_send(
                            w, aap_build_listening_modes_cmd(modes), res)
                  w2 == [w1 EXCEPT !.state = airpods_state_set_listening_modes(
                                       @, off, transparency, anc, adaptive)]
                  w3 == config_save_device_listening_modes(
                            w2, w2.state.device_address,
                            <<off, transparency, anc, adaptive>>, save_ok)
              IN EmitAll(w3, <<"ListeningModeOff",
                               "ListeningModeTransparency",
                               "ListeningModeANC", "ListeningModeAdaptive">>)

(***************************************************************************)
(* dbus_service.c: method dispatch.  The reply is recorded in the world's  *)
(* `reply`.                                                                *)
(***************************************************************************)
handle_method_call(w, method_name, parameters, res) ==
    CASE method_name = "SetNoiseControlMode" ->
            [on_set_noise_control(
                 w, noise_control_mode_from_string(parameters[1]), res)
             EXCEPT !.reply = "return_value"]
      [] method_name = "SetConversationalAwareness" ->
            [on_set_conv_awareness(w, parameters[1], res)
             EXCEPT !.reply = "return_value"]
      [] method_name = "SetAdaptiveNoiseLevel" ->
            [on_set_adaptive_level(w, parameters[1], res)
             EXCEPT !.reply = "return_value"]
      [] OTHER -> [w EXCEPT !.reply = "G_DBUS_ERROR_UNKNOWN_METHOD"]

\* Dispatch of the two methods whose branch of handle_method_call is not in
\* the tree: the arguments are handed to the registered callback and the
\* call returns.
handle_method_call_ext(w, method_name, parameters, res, save_ok) ==
    CASE method_name = "SetEarPauseMode" ->
            [on_set_ear_pause_mode(w, parameters[1], save_ok)
             EXCEPT !.reply = "return_value"]
      [] method_name = "SetListeningModes" ->
            [on_set_listening_modes(w, parameters[1], parameters[2],
                                    parameters[3], parameters[4], res, save_ok)
             EXCEPT !.reply = "return_value"]
      [] OTHER -> handle_method_call(w, method_name, parameters, res)

(***************************************************************************)
(* main.c: main() up to the event loop.  `stored` is daemon.conf as found  *)
(* on disk, mc_ok whether media_control_new succeeds.                      *)
(***************************************************************************)
NoConfigFile == [exists |-> FALSE, ear_pause_mode |-> 0]

\* A NULL BluezDeviceInfo pointer.
bluez_device_info_null ==
    [object_path |-> 0, address |-> NULL, name |-> NULL, connected |-> FALSE]

\* bluez_monitor.c: the observer as constructed.  Object paths are
\* identified with the peers they name; known_devices maps a path to the
\* cached BluezDeviceInfo or to the NULL one; walk is the list of objects
\* bluez_monitor_check_existing_devices has still to visit.
bluez_monitor_new ==
    [known_devices |-> [p \in Peers |-> bluez_device_info_null],
     walk |-> <<>>]

AddressSet == {PeerAddress(p) : p \in Peers}

Startup(stored, mc_ok, save_ok, pl) ==
    LET w0 == [state |-> airpods_state_init,
               bt_conn |-> bt_conn_null,
               pending_address |-> NULL, pending_name |-> NULL,
               config |-> config_get_defaults,
               media_control |-> media_control_null,
               service_connection |-> FALSE,
               players |-> pl,
               config_file |-> stored,
               devices_file |-> [a \in AddressSet |-> <<>>],
               open_sockets |-> 0, init_written |-> <<>>, pc |-> "idle",
               bluez_monitor |-> bluez_monitor_new,
               bus_name |-> "pending",
               exit_status |-> [exited |-> FALSE, code |-> 0],
               tx |-> <<>>, signals |-> <<>>, bt_events |-> <<>>,
               media |-> <<>>, fs |-> <<>>, reply |-> NULL, bluez |-> <<>>]
        \* config_load
        w1 == IF ~stored.exists THEN config_save(w0, save_ok)
              ELSE [w0 EXCEPT !.config = ConfigLoaded(stored.ear_pause_mode)]
    IN IF mc_ok
       THEN [w1 EXCEPT
               !.state.ear_pause_mode = w1.config.ear_pause_mode,
               !.media_control = media_control_set_ear_pause_mode(
                                     media_control_new,
                                     w1.config.ear_pause_mode)]
       ELSE w1

InitFrom(w) ==
    /\ state = w.state
    /\ bt_conn = w.bt_conn
    /\ pending_address = w.pending_address
    /\ pending_name = w.pending_name
    /\ config = w.config
    /\ media_control = w.media_control
    /\ service_connection = w.service_connection
    /\ players = w.players
    /\ config_file = w.config_file
    /\ devices_file = w.devices_file
    /\ open_sockets = w.open_sockets
    /\ init_written = w.init_written
    /\ pc = w.pc
    /\ bluez_monitor = w.bluez_monitor
    /\ bus_name = w.bus_name
    /\ exit_status = w.exit_status
    /\ paused_by_us = {}
    /\ policy_fresh = TRUE
    /\ last_event = [p \in Peers |-> "none"]
    /\ last_device_signal = NoDeviceSignal
    /\ obs = [ev |-> [name |-> "main", args |-> <<>>], tx |-> w.tx,
              signals |-> w.signals, bt_events |-> w.bt_events,
              media |-> w.media, fs |-> w.fs, reply |-> w.reply,
              bluez |-> w.bluez]

(***************************************************************************)
(* Event-loop callbacks.  A callback runs only when no other is running    *)
(* (pc = "idle"); bus methods are dispatched once the object is registered.*)
(***************************************************************************)
Ev(name, args) == [name |-> name, args |-> args]

Device(p) == [address |-> PeerAddress(p), name |-> PeerName(p)]

NoFailEnv == MediaEnv(TRUE, {}, {}, {})

OnBusAcquired ==
    /\ pc = "idle"
    /\ ~service_connection
    /\ Commit([World EXCEPT !.service_connection = TRUE],
              Ev("on_bus_acquired", <<>>))

BluezDeviceConnected(p, res) ==
    /\ pc = "idle"
    /\ Commit(on_bluez_device_connected(World, Device(p), res),
              Ev("on_bluez_device_connected", <<p>>))

BluezDeviceDisconnected(p) ==
    /\ pc = "idle"
    /\ Commit(on_bluez_device_disconnected(World, Device(p)),
              Ev("on_bluez_device_disconnected", <<p>>))

ConnectedSendHandshake(res) ==
    /\ pc = "send_handshake"
    /\ Commit(on_bt_state_changed_send_handshake(World, res),
              Ev("bt_connection_send_handshake", <<>>))

ConnectedSendSetFeatures(res) ==
    /\ pc = "send_set_features"
    /\ Commit(on_bt_state_changed_send_set_features(World, res),
              Ev("bt_connection_send_set_features", <<>>))

ConnectedSendRequestNotifications(res) ==
    /\ pc = "send_request_notifications"
    /\ Commit(on_bt_state_changed_send_request_notifications(World, res),
              Ev("bt_connection_send_request_notifications", <<>>))

ConnectedSetDevice ==
    /\ pc = "set_device"
    /\ Commit(on_bt_state_changed_set_device(World),
              Ev("airpods_state_set_device", <<>>))

\* poll() reports revents on the attached source.
SocketReady(revents, recv, env) ==
    /\ pc = "idle"
    /\ bt_conn.source
    /\ IF bt_source_check(revents)
       THEN Commit(bt_source_dispatch(World, revents, recv, env),
                   Ev("bt_source_dispatch", <<revents, recv>>))
       ELSE Commit(World, Ev("bt_source_check", <<revents>>))

MethodCall(method_name, parameters, res, save_ok) ==
    /\ pc = "idle"
    /\ service_connection
    /\ Commit(handle_method_call_ext(World, method_name, parameters, res,
                                     save_ok),
              Ev(method_name, parameters))

SetNoiseControlMode(str, res) ==
    MethodCall("SetNoiseControlMode", <<str>>, res, TRUE)

SetConversationalAwareness(enabled, res) ==
    MethodCall("SetConversationalAwareness", <<enabled>>, res, TRUE)

SetAdaptiveNoiseLevel(level, res) ==
    MethodCall("SetAdaptiveNoiseLevel", <<level>>, res, TRUE)

SetEarPauseMode(mode, save_ok) ==
    MethodCall("SetEarPauseMode", <<mode>>, "ok", save_ok)

SetListeningModes(off, transparency, anc, adaptive, res, save_ok) ==
    MethodCall("SetListeningModes", <<off, transparency, anc, adaptive>>,
               res, save_ok)

\* A media player appears, disappears or changes its playback status.
PlayerChanged(n, status) ==
    /\ pc = "idle"
    /\ players[n] # status
    /\ Commit([World EXCEPT !.players[n] = status],
              Ev("player_changed", <<n, status>>))

(***************************************************************************)
(* Inputs                                                                  *)
(***************************************************************************)
STR_ANC_upper == <<65, 78, 67>>                                  \* "ANC"
STR_Transparent_mixed ==
    <<84, 114, 97, 110, 115, 112, 97, 114, 101, 110, 116>>       \* "Transparent"
STR_OFF_mixed == <<79, 102, 70>>                                 \* "OfF"
STR_bogus == <<98, 111, 103, 117, 115>>                          \* "bogus"
STR_an == <<97, 110>>                                            \* "an"
STR_ancx == <<97, 110, 99, 120>>                                 \* "ancx"
STR_empty == <<>>                                                \* ""

RecognisedModeNames ==
    {STR_off, STR_anc, STR_transparency, STR_adaptive,
     STR_noise_cancellation, STR_cancellation, STR_transparent,
     STR_ANC_upper, STR_Transparent_mixed, STR_OFF_mixed}

UnrecognisedModeNames == {STR_bogus, STR_an, STR_ancx, STR_empty}

FRAME_BATTERY ==
    <<4, 0, 4, 0, 4, 0, 3, 2, 1, 64, 2, 1, 4, 1, 63, 1, 1, 8, 1, 0, 4, 1>>
FRAME_NOISE_CONTROL_ANC == <<4, 0, 4, 0, 9, 0, 13, 2, 0, 0, 0>>
FRAME_EAR_IN_IN == <<4, 0, 4, 0, 6, 0, 0, 0>>
FRAME_BAD_HEADER == <<1, 0, 4, 0, 6, 0, 0, 0>>

(***************************************************************************)
(* Spec: the connection lifecycle of the daemon, with two peers, failing   *)
(* connects and sends, socket events, inbound frames and bus commands.     *)
(***************************************************************************)
Init ==
    InitFrom(Startup(NoConfigFile, TRUE, TRUE, [n \in PlayerNames |-> "Absent"]))

\* Results send() can have: it is only called on a connected transport.
SendOutcomes ==
    IF bt_conn.socket_fd >= 0 /\ bt_conn.state = BT_STATE_CONNECTED
    THEN SendResults ELSE {"ok"}

LifecycleRecv ==
    {<<"data", FRAME_BATTERY>>, <<"data", FRAME_NOISE_CONTROL_ANC>>,
     <<"data", FRAME_BAD_HEADER>>, <<"zero">>, <<"again">>, <<"error">>}

LifecycleRevents == {{"IN"}, {"IN", "HUP"}, {"HUP"}}

Next ==
    \/ OnBusAcquired
    \/ \E p \in Peers, res \in ConnectResults : BluezDeviceConnected(p, res)
    \/ \E p \in Peers : BluezDeviceDisconnected(p)
    \/ \E res \in SendOutcomes : ConnectedSendHandshake(res)
    \/ \E res \in SendOutcomes : ConnectedSendSetFeatures(res)
    \/ \E res \in SendOutcomes : ConnectedSendRequestNotifications(res)
    \/ ConnectedSetDevice
    \/ \E revents \in LifecycleRevents, recv \in LifecycleRecv :
          SocketReady(revents, recv, NoFailEnv)
    \/ \E res \in SendOutcomes : SetNoiseControlMode(STR_anc, res)
    \/ \E res \in SendOutcomes : SetConversationalAwareness(TRUE, res)
    \/ \E res \in SendOutcomes : SetAdaptiveNoiseLevel(50, res)
    \/ \E res \in SendOutcomes :
          SetListeningModes(FALSE, TRUE, TRUE, FALSE, res, TRUE)

Spec == Init /\ [][Next]_vars

(***************************************************************************)
(* SpecMedia: the media controller driven through its interface            *)
(* (media_control.h) on a session bus whose players come, go, change       *)
(* status and fail calls.                                                  *)
(***************************************************************************)
MediaSetEarPauseMode(mode) ==
    /\ pc = "idle"
    /\ Commit([World EXCEPT
                 !.media_control = media_control_set_ear_pause_mode(@, mode)],
              Ev("media_control_set_ear_pause_mode", <<mode>>))

MediaOnEarDetectionChanged(left_in_ear, right_in_ear, env) ==
    /\ pc = "idle"
    /\ Commit(media_control_on_ear_detection_changed(World, env, left_in_ear,
                                                     right_in_ear),
              Ev("media_control_on_ear_detection_changed",
                 <<left_in_ear, right_in_ear>>))

MediaPauseAll(env) ==
    /\ pc = "idle"
    /\ Commit(media_control_pause_all(World, env),
              Ev("media_control_pause_all", <<>>))

MediaResume(env) ==
    /\ pc = "idle"
    /\ Commit(media_control_resume(World, env),
              Ev("media_control_resume", <<>>))

\* Modes handed to the controller: the three enumerators and a value that
\* is none of them (the bus method hands over any integer).
MediaModes == {EAR_PAUSE_DISABLED, EAR_PAUSE_ONE_OUT, EAR_PAUSE_BOTH_OUT, 3}

InitMedia ==
    InitFrom(Startup(NoConfigFile, TRUE, TRUE, [n \in PlayerNames |-> "Absent"]))

NextMedia ==
    \/ \E mode \in MediaModes : MediaSetEarPauseMode(mode)
    \/ \E l \in BOOLEAN, r \in BOOLEAN,
          env \in MediaEnvs(players, media_control) :
          MediaOnEarDetectionChanged(l, r, env)
    \/ \E env \in PauseEnvs(players) : MediaPauseAll(env)
    \/ \E env \in ResumeEnvs(media_control) : MediaResume(env)
    \/ \E n \in PlayerNames, status \in PlaybackStatus \cup {"Absent"} :
          PlayerChanged(n, status)

SpecMedia == InitMedia /\ [][NextMedia]_vars

(***************************************************************************)
(* SpecCmd: the five bus methods against one peer whose connection comes   *)
(* and goes and whose sends can fail.                                      *)
(***************************************************************************)
CmdLevels == {-1, 50, 300}

CmdEarPauseModes == {0, 2, 3}

\* <<off, transparency, anc, adaptive>>: none, one, two (0x06, 0x09), all.
CmdListeningModes ==
    {<<FALSE, FALSE, FALSE, FALSE>>, <<FALSE, FALSE, TRUE, FALSE>>,
     <<FALSE, TRUE, TRUE, FALSE>>, <<TRUE, FALSE, FALSE, TRUE>>,
     <<TRUE, TRUE, TRUE, TRUE>>}

StoredConfig(v) == [exists |-> TRUE, ear_pause_mode |-> v]

InitCmd ==
    \E mc_ok \in BOOLEAN :
        InitFrom(Startup(NoConfigFile, mc_ok, TRUE,
                         [n \in PlayerNames |-> "Absent"]))

\* The session of SpecCmd and SpecNc: connects succeed or are refused, the
\* handshake send succeeds or finds the connection reset.
Session ==
    \/ OnBusAcquired
    \/ \E res \in {"ok", "connect_failed"} : BluezDeviceConnected(1, res)
    \/ BluezDeviceDisconnected(1)
    \/ \E res \in SendOutcomes \ {"other"} : ConnectedSendHandshake(res)
    \/ ConnectedSendSetFeatures("ok")
    \/ ConnectedSendRequestNotifications("ok")
    \/ ConnectedSetDevice

NextCmd ==
    \/ Session
    \/ \E str \in {STR_anc, STR_bogus}, res \in SendOutcomes :
          SetNoiseControlMode(str, res)
    \/ \E enabled \in BOOLEAN, res \in SendOutcomes :
          SetConversationalAwareness(enabled, res)
    \/ \E level \in CmdLevels, res \in SendOutcomes :
          SetAdaptiveNoiseLevel(level, res)
    \/ \E mode \in CmdEarPauseModes, save_ok \in BOOLEAN :
          SetEarPauseMode(mode, save_ok)
    \/ \E m \in CmdListeningModes, res \in SendOutcomes :
          SetListeningModes(m[1], m[2], m[3], m[4], res, TRUE)

SpecCmd == InitCmd /\ [][NextCmd]_vars

(***************************************************************************)
(* SpecNc: SetNoiseControlMode with every kind of mode name.               *)
(***************************************************************************)
NcModeNames == RecognisedModeNames \cup UnrecognisedModeNames

NextNc ==
    \/ Session
    \/ \E str \in NcModeNames, res \in SendOutcomes :
          SetNoiseControlMode(str, res)

SpecNc == Init /\ [][NextNc]_vars

(***************************************************************************)
(* Properties                                                              *)
(***************************************************************************)
CountOp(m, op) == Cardinality({i \in 1..Len(m) : m[i].op = op})

PlayersOf(m, op) ==
    LET sel == SelectSeq(m, LAMBDA e : e.op = op)
    IN [i \in 1..Len(sel) |-> sel[i].player]

Range(f) == {f[i] : i \in DOMAIN f}

HasSignal(name) ==
    \E i \in 1..Len(obs.signals) : obs.signals[i].name = name

DisconnectedHandled ==
    \E i \in 1..Len(obs.bt_events) : obs.bt_events[i] = BT_STATE_DISCONNECTED

InitTriplet ==
    <<AAP_PKT_HANDSHAKE, AAP_PKT_SET_FEATURES, AAP_PKT_REQUEST_NOTIFICATIONS>>

IsPrefix(a, b) == Len(a) <= Len(b) /\ \A i \in 1..Len(a) : a[i] = b[i]

IsCommandFrame(data) ==
    Len(data) = AAP_CONTROL_CMD_SIZE /\ D(data, 4) = AAP_OPCODE_CONTROL

\* C2: on every socket the frames written are the handshake, then the
\* feature-set frame, then the request-notifications frame, in that order;
\* no command frame is written before all three have been written; and
\* Device State is marked connected, and DeviceConnected broadcast, only
\* after all three have been written.
C2_TripletBeforeTraffic ==
    /\ IsPrefix(init_written, InitTriplet)
    /\ \A i \in 1..Len(obs.tx) :
          (obs.tx[i].res = "ok" /\ IsCommandFrame(obs.tx[i].data))
              => init_written = InitTriplet
    /\ (obs.ev.name = "airpods_state_set_device" \/ HasSignal("DeviceConnected"))
          => init_written = InitTriplet

\* The "Out" and "In" of an ear-pause policy, as the policy table states
\* them.
PolicyOut(mode, l, r) ==
    IF mode = EAR_PAUSE_ONE_OUT THEN (~l) \/ (~r) ELSE (~l) /\ (~r)

PolicyIn(mode, l, r) ==
    IF mode = EAR_PAUSE_ONE_OUT THEN l /\ r ELSE l \/ r

IsEarCall == obs.ev.name = "media_control_on_ear_detection_changed"

\* C3: a call on-ear-detection-changed(left, right) with a valid previous
\* state under One-Out or Both-Out invokes pause-all exactly when the
\* previous state was not Out and the new one is Out, resume exactly when
\* the previous state was Out and the new one is In, and neither when the
\* pair did not change; under Disabled it invokes neither.
C3_EdgeDetector ==
    [][IsEarCall' =>
        LET mode == media_control.ear_pause_mode
            pl == media_control.prev_left_in_ear
            pr == media_control.prev_right_in_ear
            l == obs'.ev.args[1]
            r == obs'.ev.args[2]
            pauses == CountOp(obs'.media, "pause_all")
            resumes == CountOp(obs'.media, "resume")
        IN /\ mode = EAR_PAUSE_DISABLED => pauses = 0 /\ resumes = 0
           /\ (/\ mode \in {EAR_PAUSE_ONE_OUT, EAR_PAUSE_BOTH_OUT}
               /\ media_control.prev_state_valid)
              => /\ pauses = IF ~PolicyOut(mode, pl, pr) /\ PolicyOut(mode, l, r)
                             THEN 1 ELSE 0
                 /\ resumes = IF PolicyOut(mode, pl, pr) /\ PolicyIn(mode, l, r)
                              THEN 1 ELSE 0
                 /\ (pl = l /\ pr = r) => pauses = 0 /\ resumes = 0
      ]_vars

\* Under Both-Out the second pod leaves the ear and a playing player is
\* paused.
C3_Witness ==
    /\ IsEarCall
    /\ media_control.ear_pause_mode = EAR_PAUSE_BOTH_OUT
    /\ obs.ev.args = <<FALSE, FALSE>>
    /\ CountOp(obs.media, "pause_all") = 1
    /\ \E i \in 1..Len(obs.media) :
          obs.media[i].op = "Pause" /\ obs.media[i].ok

\* C4: the first call to on-ear-detection-changed after construction of
\* the controller, and the first call after a change of the ear-pause
\* policy, invokes neither pause-all nor resume; a change of the policy
\* invalidates the recorded previous state.
C4_FirstCallSilent ==
    [][/\ (IsEarCall' /\ policy_fresh)
            => /\ CountOp(obs'.media, "pause_all") = 0
               /\ CountOp(obs'.media, "resume") = 0
       /\ media_control'.ear_pause_mode # media_control.ear_pause_mode
            => ~media_control'.prev_state_valid
      ]_vars

\* C5: resume calls Play on exactly the names stored by the most recent
\* pause-all, in order, and leaves the stored set empty; no Play is ever
\* called on a name the controller has not paused since the previous
\* resume.
C5_ResumeExactlyPaused ==
    [][/\ CountOp(obs'.media, "resume") > 0
            => /\ PlayersOf(obs'.media, "Play") = media_control.paused_players
               /\ media_control'.paused_players = <<>>
       /\ Range(PlayersOf(obs'.media, "Play")) \subseteq paused_by_us
      ]_vars

\* A resume plays two stored players, one of which fails.
C5_Witness ==
    /\ CountOp(obs.media, "resume") = 1
    /\ Len(PlayersOf(obs.media, "Play")) = 2
    /\ \E i \in 1..Len(obs.media) :
          obs.media[i].op = "Play" /\ ~obs.media[i].ok

\* C6: pause-all queries every listed player, calls Pause on exactly the
\* players whose query answered Playing, and afterwards the stored set is
\* exactly the players whose Pause succeeded, whatever it held before:
\* players not Playing, players whose query failed and players whose Pause
\* failed are not in it.
C6_PauseAllStoresPaused ==
    [][CountOp(obs'.media, "pause_all") > 0 =>
        LET m == obs'.media
            listed == IF \E i \in 1..Len(m) : m[i].op = "ListNames" /\ m[i].ok
                      THEN {n \in PlayerNames : players[n] # "Absent"}
                      ELSE {}
            answered(n) == \E i \in 1..Len(m) :
                              /\ m[i].op = "Get" /\ m[i].player = n /\ m[i].ok
                              /\ m[i].status = players[n]
            okPauses == SelectSeq(m, LAMBDA e : e.op = "Pause" /\ e.ok)
            stored == media_control'.paused_players
        IN /\ Range(PlayersOf(m, "Get")) = listed
           /\ \A n \in PlayerNames :
                 (n \in Range(PlayersOf(m, "Pause")))
                    <=> (n \in listed /\ answered(n) /\ players[n] = "Playing")
           /\ stored = [i \in 1..Len(okPauses) |-> okPauses[i].player]
           /\ \A n \in Range(stored) :
                 /\ players[n] = "Playing"
                 /\ answered(n)
                 /\ \E i \in 1..Len(m) :
                       m[i].op = "Pause" /\ m[i].player = n /\ m[i].ok
      ]_vars

\* A pause-all with one Pause that succeeds and one that fails.
C6_Witness ==
    /\ CountOp(obs.media, "pause_all") = 1
    /\ Len(media_control.paused_players) = 1
    /\ \E i \in 1..Len(obs.media) :
          obs.media[i].op = "Pause" /\ ~obs.media[i].ok

Flags(args) == Cardinality({i \in 1..4 : args[i]})

\* The bitmask of a request, as the protocol table states it.
RequestedMask(args) ==
    (IF args[1] THEN 1 ELSE 0) + (IF args[2] THEN 2 ELSE 0)
    + (IF args[3] THEN 4 ELSE 0) + (IF args[4] THEN 8 ELSE 0)

IsListeningModesFrame(data) ==
    IsCommandFrame(data) /\ D(data, 6) = AAP_CTRL_LISTENING_MODES

Persisted == <<config, config_file, devices_file>>

\* C7: SetListeningModes with fewer than two flags true hands no frame to
\* the transport and leaves Device State and the persisted configuration
\* unchanged; every listening-modes frame handed to the transport is the
\* 11-byte control frame whose byte 7 is the requested bitmask, with at
\* least two of the bits 0x01/0x02/0x04/0x08 set (Transparency+ANC: 0x06).
C7_ListeningModesAtLeastTwo ==
    [][obs'.ev.name = "SetListeningModes" =>
        LET args == obs'.ev.args
            tx == obs'.tx
        IN /\ Flags(args) < 2
                => /\ tx = <<>>
                   /\ state' = state
                   /\ Persisted' = Persisted
           /\ \A i \in 1..Len(tx) :
                 /\ tx[i].data = <<4, 0, 4, 0, 9, 0, 26, RequestedMask(args),
                                   0, 0, 0>>
                 /\ Cardinality({b \in {1, 2, 4, 8} :
                                   BitSet(D(tx[i].data, 7), b)}) >= 2
           /\ (args = <<FALSE, TRUE, TRUE, FALSE>> /\ tx # <<>>)
                => D(tx[1].data, 7) = 6
      ]_vars

\* Transparency+ANC is written to the socket as 0x06.
C7_Witness ==
    /\ obs.ev.name = "SetListeningModes"
    /\ obs.ev.args = <<FALSE, TRUE, TRUE, FALSE>>
    /\ Len(obs.tx) = 1
    /\ obs.tx[1].res = "ok"
    /\ D(obs.tx[1].data, 7) = 6
    /\ state.listening_modes.off_enabled = FALSE
    /\ state.listening_modes.adaptive_enabled = FALSE

SendingCommands ==
    {"SetNoiseControlMode", "SetConversationalAwareness",
     "SetAdaptiveNoiseLevel", "SetListeningModes"}

\* C8: while the transport is not Connected, SetNoiseControlMode,
\* SetConversationalAwareness, SetAdaptiveNoiseLevel and SetListeningModes
\* hand no frame to the transport and change neither Device State nor the
\* persisted configuration; SetEarPauseMode(i) still sets the mode in
\* Device State, in the media controller (when there is one) and in the
\* configuration, and saves the configuration: daemon.conf holds i unless
\* the write to disk fails.
C8_NotConnected ==
    [][bt_conn.state # BT_STATE_CONNECTED =>
        /\ obs'.ev.name \in SendingCommands
             => /\ obs'.tx = <<>>
                /\ state' = state
                /\ Persisted' = Persisted
        /\ obs'.ev.name = "SetEarPauseMode"
             => LET i == obs'.ev.args[1]
                IN /\ obs'.tx = <<>>
                   /\ state'.ear_pause_mode = i
                   /\ media_control.allocated
                        => media_control'.ear_pause_mode = i
                   /\ config'.ear_pause_mode = i
                   /\ Len(obs'.fs) = 1 /\ obs'.fs[1].op = "config_save"
                   /\ obs'.fs[1].ok
                        => config_file' = [exists |-> TRUE,
                                           ear_pause_mode |-> i]
      ]_vars

\* Both-Out is set and saved while the transport is in the Error state.
C8_Witness ==
    /\ obs.ev.name = "SetEarPauseMode"
    /\ bt_conn.state = BT_STATE_ERROR
    /\ obs.ev.args = <<2>>
    /\ state.ear_pause_mode = 2
    /\ media_control.allocated /\ media_control.ear_pause_mode = 2
    /\ config_file = [exists |-> TRUE, ear_pause_mode |-> 2]

\* Lower-case form of a mode name.
LowerCase(str) ==
    [i \in 1..Len(str) |-> IF str[i] \in 65..90 THEN str[i] + 32 ELSE str[i]]

\* The mode byte the bus interface assigns to a mode name; 0 for a name
\* that is not a mode name.
ModeByteOfName(str) ==
    LET n == LowerCase(str)
    IN CASE n = STR_off -> 1
         [] n \in {STR_anc, STR_noise_cancellation, STR_cancellation} -> 2
         [] n \in {STR_transparency, STR_transparent} -> 3
         [] n = STR_adaptive -> 4
         [] OTHER -> 0

\* C9: SetNoiseControlMode with a string that is not a mode name returns
\* success on the bus and hands no frame to the transport.
C9_UnrecognisedSendsNothing ==
    (obs.ev.name = "SetNoiseControlMode" /\ ModeByteOfName(obs.ev.args[1]) = 0)
        => /\ obs.reply = "return_value"
           /\ obs.tx = <<>>

\* C10: SetNoiseControlMode(s) while connected, with s a mode name in any
\* letter case, hands the transport exactly one frame, the 11 bytes
\* 04 00 04 00 09 00 0D m 00 00 00 with m = 1 for off, 2 for anc,
\* noise_cancellation and cancellation, 3 for transparency and
\* transparent, 4 for adaptive.
C10_NoiseControlFrame ==
    [][(/\ obs'.ev.name = "SetNoiseControlMode"
        /\ bt_conn.state = BT_STATE_CONNECTED
        /\ ModeByteOfName(obs'.ev.args[1]) # 0)
        => /\ Len(obs'.tx) = 1
           /\ obs'.tx[1].data =
                <<4, 0, 4, 0, 9, 0, 13, ModeByteOfName(obs'.ev.args[1]),
                  0, 0, 0>>
           /\ obs'.reply = "return_value"
      ]_vars

\* "Transparent" is written to the socket as mode 3.
C10_Witness ==
    /\ obs.ev.name = "SetNoiseControlMode"
    /\ obs.ev.args = <<STR_Transparent_mixed>>
    /\ Len(obs.tx) = 1
    /\ obs.tx[1].res = "ok"
    /\ D(obs.tx[1].data, 7) = 3

(***************************************************************************)
(* SpecCodec: the codec (aap_protocol.c) on its own.  A behaviour starts   *)
(* with a call about to be made: a builder with its argument, or the       *)
(* parser with a buffer read from the socket.  A builder's frame is then   *)
(* parsed as well.  obs holds the call, the buffer and, once parsed, the   *)
(* parser's result.                                                        *)
(***************************************************************************)
NotParsed == Parsed(NULL, NULL, <<>>)

CodecCall(name, args, frame) ==
    [ev |-> Ev(name, args), frame |-> frame, packet |-> NotParsed]

CodecStep(frame, packet) ==
    /\ obs' = [obs EXCEPT !.frame = frame, !.packet = packet]
    /\ UNCHANGED <<state, bt_conn, pending_address, pending_name, config,
                   media_control, service_connection, players, config_file,
                   devices_file, open_sockets, init_written, pc,
                   bluez_monitor, bus_name, exit_status, paused_by_us,
                   policy_fresh, last_event, last_device_signal>>

CodecPending(name) ==
    /\ obs.ev.name = name
    /\ obs.frame = <<>>

CodecBuildNoiseControl ==
    /\ CodecPending("aap_build_noise_control_cmd")
    /\ CodecStep(aap_build_noise_control_cmd(obs.ev.args[1]), NotParsed)

CodecBuildConvAwareness ==
    /\ CodecPending("aap_build_conv_awareness_cmd")
    /\ CodecStep(aap_build_conv_awareness_cmd(obs.ev.args[1]), NotParsed)

CodecBuildListeningModes ==
    /\ CodecPending("aap_build_listening_modes_cmd")
    /\ CodecStep(aap_build_listening_modes_cmd(obs.ev.args[1]), NotParsed)

CodecBuildAdaptiveLevel ==
    /\ CodecPending("aap_build_adaptive_level_cmd")
    /\ CodecStep(aap_build_adaptive_level_cmd(obs.ev.args[1]), NotParsed)

\* aap_parse_packet on the buffer at hand.
CodecParse ==
    /\ obs.ev.name = "aap_parse_packet" \/ obs.frame # <<>>
    /\ obs.packet.result = NULL
    /\ CodecStep(obs.frame, aap_parse_packet(obs.frame))

\* Arguments of the builders: every enumerator and a value outside the
\* enumeration; every 4-bit mask; levels around the clamp and the limits of
\* a 32-bit int.
CodecModes == 0..5

CodecMasks == 0..15

CodecLevels ==
    {-2147483647 - 1, -1, 0, 1, 50, 99, 100, 101, 255, 256, 300, 2147483647}

\* Battery records: every component code of the protocol and one that is
\* none of them, with levels at and above 100 and every status byte kind.
BatteryRecords ==
    {<<c, 0, ls[1], ls[2], 0>> :
        c \in {1, 2, 4, 8, 16},
        ls \in {<<50, 1>>, <<100, 2>>, <<101, 4>>, <<0, 3>>, <<255, 0>>}}

BatteryHeader(count) == <<4, 0, 4, 0, 4, 0, count>>

BatteryFrames ==
    {BatteryHeader(1) \o r : r \in BatteryRecords}
    \cup {BatteryHeader(2) \o r1 \o r2 :
            r1 \in BatteryRecords, r2 \in BatteryRecords}
    \cup {BatteryHeader(3) \o r1 \o r2 \o r3 :
            r1 \in BatteryRecords, r2 \in BatteryRecords,
            r3 \in BatteryRecords}

\* Battery frames followed by bytes that belong to no record.
PaddedBatteryFrames ==
    {BatteryHeader(1) \o r \o <<0, 0, 0>> : r \in BatteryRecords}
    \cup {BatteryHeader(2) \o r \o <<2, 0, 77, 2, 0>> \o <<4, 0, 1, 1, 0>> :
             r \in BatteryRecords}

\* Buffers of every other kind: well-formed frames of each opcode, control
\* frames with each sub-opcode of the protocol, with a mode byte outside
\* 1..4 and with sub-opcodes that are none of the protocol's, short
\* buffers, wrong headers, wrong counts and unknown opcodes.
OtherBuffers ==
    {<<>>, <<4, 0, 4>>, <<1, 0, 4, 0, 6, 0, 0, 0>>, <<0, 0, 4, 0, 1, 0, 2, 0>>,
     <<4, 0, 4, 0>>,
     <<4, 0, 4, 0, 4, 0, 1, 4, 0, 90, 2>>,
     <<4, 0, 4, 0, 4, 0, 3, 4, 0, 90, 2, 0, 2, 0, 80, 2, 0>>,
     <<4, 0, 4, 0, 4, 0, 0, 4, 0, 90, 2, 0>>,
     <<4, 0, 4, 0, 4, 0, 4, 4, 0, 90, 2, 0, 2, 0, 80, 2, 0, 8, 0, 100, 1, 0,
       1, 0, 5, 1, 0>>,
     <<4, 0, 4, 0, 4, 0, 255, 4, 0, 90, 2, 0>>,
     <<4, 0, 4, 0, 4, 1, 1, 4, 0, 90, 2, 0>>,
     <<4, 0, 4, 0, 6, 0, 0>>, <<4, 0, 4, 0, 6, 0, 0, 0>>,
     <<4, 0, 4, 0, 6, 0, 1, 2>>, <<4, 0, 4, 0, 6, 1, 0, 0>>,
     <<4, 0, 4, 0, 9, 0, 13>>,
     <<4, 0, 4, 0, 9, 0, 13, 0, 0, 0, 0>>,
     <<4, 0, 4, 0, 9, 0, 13, 1, 0, 0, 0>>,
     <<4, 0, 4, 0, 9, 0, 13, 4, 0, 0, 0>>,
     <<4, 0, 4, 0, 9, 0, 13, 5, 0, 0, 0>>,
     <<4, 0, 4, 0, 9, 0, 13, 255>>,
     <<4, 0, 4, 0, 9, 0, 40, 1, 0, 0, 0>>,
     <<4, 0, 4, 0, 9, 0, 40, 2, 0, 0, 0>>,
     <<4, 0, 4, 0, 9, 0, 26, 6, 0, 0, 0>>,
     <<4, 0, 4, 0, 9, 0, 46, 50, 0, 0, 0>>,
     <<4, 0, 4, 0, 9, 0, 27, 1, 0, 0, 0>>,
     <<4, 0, 4, 0, 9, 0, 153, 1, 0, 0, 0>>,
     <<4, 0, 4, 0, 29, 0, 1, 2, 3, 4, 5>>,
     <<4, 0, 4, 0, 29, 0, 1, 2, 3, 4, 5, 6, 65, 0, 65, 50, 0, 65, 0>>,
     <<4, 0, 4, 0, 75>>, <<4, 0, 4, 0, 75, 0, 2, 0, 1, 3>>,
     <<4, 0, 4, 0, 0>>,
     <<4, 0, 4, 0, 15, 0, 255, 255, 255, 255>>,
     <<4, 0, 4, 0, 23, 0, 0, 0>>,
     <<4, 0, 4, 0, 77, 0, 255, 0>>}

CodecBuffers == BatteryFrames \cup PaddedBatteryFrames \cup OtherBuffers

CodecCalls ==
    {CodecCall("aap_build_noise_control_cmd", <<m>>, <<>>) : m \in CodecModes}
    \cup {CodecCall("aap_build_conv_awareness_cmd", <<e>>, <<>>) :
            e \in BOOLEAN}
    \cup {CodecCall("aap_build_listening_modes_cmd", <<m>>, <<>>) :
            m \in CodecMasks}
    \cup {CodecCall("aap_build_adaptive_level_cmd", <<l>>, <<>>) :
            l \in CodecLevels}
    \cup {CodecCall("aap_parse_packet", <<>>, data) : data \in CodecBuffers}

InitCodec ==
    LET w == Startup(NoConfigFile, TRUE, TRUE,
                     [n \in PlayerNames |-> "Absent"])
    IN /\ state = w.state
       /\ bt_conn = w.bt_conn
       /\ pending_address = w.pending_address
       /\ pending_name = w.pending_name
       /\ config = w.config
       /\ media_control = w.media_control
       /\ service_connection = w.service_connection
       /\ players = w.players
       /\ config_file = w.config_file
       /\ devices_file = w.devices_file
       /\ open_sockets = w.open_sockets
       /\ init_written = w.init_written
       /\ pc = w.pc
       /\ bluez_monitor = w.bluez_monitor
       /\ bus_name = w.bus_name
       /\ exit_status = w.exit_status
       /\ paused_by_us = {}
       /\ policy_fresh = TRUE
       /\ last_event = [p \in Peers |-> "none"]
       /\ last_device_signal = NoDeviceSignal
       /\ obs \in CodecCalls

NextCodec ==
    \/ CodecBuildNoiseControl
    \/ CodecBuildConvAwareness
    \/ CodecBuildListeningModes
    \/ CodecBuildAdaptiveLevel
    \/ CodecParse

SpecCodec == InitCodec /\ [][NextCodec]_vars

(***************************************************************************)
(* Properties of the codec                                                 *)
(***************************************************************************)
CodecParsed(name) ==
    /\ obs.ev.name = name
    /\ obs.packet.result # NULL

BitCount(mask) == Cardinality({b \in {1, 2, 4, 8} : BitSet(mask, b)})

\* C11: for every noise-control mode, every conversational-awareness value
\* and every listening-modes bitmask with at least two bits set, parsing
\* the frame the builder produced returns Ok with the packet class of the
\* builder and the value that was built.
C11_RoundTrip ==
    /\ (CodecParsed("aap_build_noise_control_cmd")
        /\ obs.ev.args[1] \in 1..4)
         => /\ obs.packet.result = AAP_PARSE_OK
            /\ obs.packet.type = AAP_PKT_TYPE_NOISE_CONTROL
            /\ obs.packet.data = obs.ev.args[1]
    /\ CodecParsed("aap_build_conv_awareness_cmd")
         => /\ obs.packet.result = AAP_PARSE_OK
            /\ obs.packet.type = AAP_PKT_TYPE_CONV_AWARENESS
            /\ obs.packet.data = obs.ev.args[1]
    /\ (CodecParsed("aap_build_listening_modes_cmd")
        /\ BitCount(obs.ev.args[1]) >= 2)
         => /\ obs.packet.result = AAP_PARSE_OK
            /\ obs.packet.type = AAP_PKT_TYPE_LISTENING_MODES
            /\ obs.packet.data.raw_value = obs.ev.args[1]

\* The Adaptive mode has been built and parsed back.
C11_Witness ==
    /\ CodecParsed("aap_build_noise_control_cmd")
    /\ obs.ev.args = <<NOISE_CONTROL_ADAPTIVE>>
    /\ obs.frame = AAP_PKT_NC_ADAPTIVE
    /\ obs.packet.data = NOISE_CONTROL_ADAPTIVE

Clamp(x, lo, hi) == IF x < lo THEN lo ELSE IF x > hi THEN hi ELSE x

\* The packet classes the parser has for a control frame.
OtherControlClasses ==
    {AAP_PKT_TYPE_UNKNOWN, AAP_PKT_TYPE_NOISE_CONTROL,
     AAP_PKT_TYPE_CONV_AWARENESS, AAP_PKT_TYPE_LISTENING_MODES}

\* C12: a control frame with sub-opcode 0x2E is parsed as an adaptive-
\* noise-level result whose value is the byte at offset 7 clamped to
\* 0..100: parsing the frame built for level x returns Ok, a packet class
\* of its own and the value clamp(x, 0, 100).
C12_AdaptiveLevelRoundTrip ==
    CodecParsed("aap_build_adaptive_level_cmd")
        => /\ obs.packet.result = AAP_PARSE_OK
           /\ obs.packet.type \notin OtherControlClasses
           /\ obs.packet.data = Clamp(obs.ev.args[1], 0, 100)

(***************************************************************************)
(* SpecLevel: SetAdaptiveNoiseLevel with levels around the clamp and at    *)
(* the limits of a 32-bit int, against a peer whose connection comes and   *)
(* goes.                                                                   *)
(***************************************************************************)
NextLevel ==
    \/ Session
    \/ \E level \in CodecLevels, res \in SendOutcomes :
          SetAdaptiveNoiseLevel(level, res)

SpecLevel == Init /\ [][NextLevel]_vars

\* C13: for every SetAdaptiveNoiseLevel(x) that reaches the codec, byte 7
\* of the frame handed to the transport is in 0..100: 0 for x < 0, 100 for
\* x > 100, x otherwise; the frame is 04 00 04 00 09 00 2E <byte> 00 00 00.
C13_AdaptiveLevelClamped ==
    [][obs'.ev.name = "SetAdaptiveNoiseLevel" =>
        LET x == obs'.ev.args[1]
            tx == obs'.tx
        IN /\ bt_conn.state = BT_STATE_CONNECTED => Len(tx) = 1
           /\ \A i \in 1..Len(tx) :
                 /\ D(tx[i].data, 7) \in 0..100
                 /\ D(tx[i].data, 7) =
                      (IF x < 0 THEN 0 ELSE IF x > 100 THEN 100 ELSE x)
                 /\ tx[i].data =
                      <<4, 0, 4, 0, 9, 0, 46, D(tx[i].data, 7), 0, 0, 0>>
      ]_vars

\* The largest 32-bit level is written to the socket as 100.
C13_Witness ==
    /\ obs.ev.name = "SetAdaptiveNoiseLevel"
    /\ obs.ev.args = <<2147483647>>
    /\ Len(obs.tx) = 1
    /\ obs.tx[1].res = "ok"
    /\ D(obs.tx[1].data, 7) = 100

\* A battery frame as the protocol lays it out: header, opcode 0x04, 0x00,
\* a count N in 1..3 and at least N records of five bytes.
IsBatteryFrame(data) ==
    /\ Len(data) >= 7
    /\ SubSeq(data, 1, 6) = <<4, 0, 4, 0, 4, 0>>
    /\ data[7] \in 1..3
    /\ Len(data) >= 7 + 5 * data[7]

\* Record i (from 1) of a battery frame: component, level and status bytes.
BatteryRecord(data, i) ==
    [component |-> data[3 + 5 * i], level |-> data[5 + 5 * i],
     status |-> data[6 + 5 * i]]

\* The component a record's code is routed to.
RoutedTo(component) ==
    CASE component \in {1, 4} -> "left"
      [] component = 2 -> "right"
      [] component = 8 -> "case"
      [] OTHER -> "none"

\* The records of a frame routed to a component.
RecordsFor(data, slot) ==
    {i \in 1..data[7] : RoutedTo(BatteryRecord(data, i).component) = slot}

\* Level and status a component is reported with: those of the last record
\* routed to it, -1 and Unknown when there is none.
Reported(data, slot) ==
    LET hits == RecordsFor(data, slot)
        r == BatteryRecord(data, CHOOSE i \in hits : \A j \in hits : j <= i)
    IN IF hits = {} THEN <<-1, 0>>
       ELSE <<IF r.level > 100 THEN -1 ELSE r.level,
              CASE r.status = 1 -> 1
                [] r.status = 2 -> 2
                [] r.status = 4 -> 4
                [] OTHER -> 0>>

BatteryParsed ==
    /\ CodecParsed("aap_parse_packet")
    /\ IsBatteryFrame(obs.frame)

\* C14: every battery frame with count N in 1..3 and length at least
\* 7 + 5N parses to Ok; every reported level is -1 or in 0..100 (a level
\* byte above 100 gives -1); the status is Charging, Discharging,
\* Disconnected for status byte 1, 2, 4 and Unknown for any other byte;
\* component 0x01 and 0x04 are routed to Left, 0x02 to Right, 0x08 to Case.
C14_BatteryParse ==
    BatteryParsed =>
        LET b == obs.packet.data
        IN /\ obs.packet.result = AAP_PARSE_OK
           /\ obs.packet.type = AAP_PKT_TYPE_BATTERY
           /\ {b.left_level, b.right_level, b.case_level}
                \subseteq ({-1} \cup 0..100)
           /\ <<b.left_level, b.left_status>> = Reported(obs.frame, "left")
           /\ <<b.right_level, b.right_status>> = Reported(obs.frame, "right")
           /\ <<b.case_level, b.case_status>> = Reported(obs.frame, "case")

\* A headphones frame followed by a case record whose level byte is 255.
C14_Witness ==
    /\ BatteryParsed
    /\ obs.frame = BatteryHeader(2) \o <<1, 0, 50, 1, 0>> \o <<8, 0, 255, 0, 0>>
    /\ obs.packet.data.left_level = 50
    /\ obs.packet.data.left_status = BATTERY_STATUS_CHARGING
    /\ obs.packet.data.case_level = -1
    /\ obs.packet.data.right_level = -1

(***************************************************************************)
(* SpecRx: frames arriving on the socket of a peer whose connection comes  *)
(* and goes: battery reports with all or some of the components, other     *)
(* well-formed frames, and buffers the parser does not accept.             *)
(***************************************************************************)
FRAME_BATTERY_S1 ==
    <<4, 0, 4, 0, 4, 0, 3, 4, 0, 90, 2, 0, 2, 0, 80, 2, 0, 8, 0, 100, 1, 0>>
FRAME_BATTERY_S2 == <<4, 0, 4, 0, 4, 0, 1, 1, 0, 70, 2, 0>>
FRAME_BATTERY_RIGHT_CASE ==
    <<4, 0, 4, 0, 4, 0, 2, 2, 0, 33, 1, 0, 8, 0, 101, 4, 0>>
FRAME_EAR_OUT_IN == <<4, 0, 4, 0, 6, 0, 1, 0>>
FRAME_CA_ENABLED == <<4, 0, 4, 0, 9, 0, 40, 1, 0, 0, 0>>

AcceptedFrames ==
    {FRAME_BATTERY_S1, FRAME_BATTERY_S2, FRAME_BATTERY_RIGHT_CASE,
     FRAME_NOISE_CONTROL_ANC, FRAME_EAR_IN_IN, FRAME_EAR_OUT_IN,
     FRAME_CA_ENABLED}

\* Buffers aap_parse_packet does not accept: no or a wrong header, a
\* header alone, truncated battery, ear-detection, control and metadata
\* frames, a battery count of 0 and of 4, a non-zero byte after the
\* opcode, and opcodes the parser does not know.
RejectedFrames ==
    {<<>>, <<4, 0, 4>>, FRAME_BAD_HEADER, <<0, 0, 4, 0, 1, 0, 2, 0>>,
     <<4, 0, 4, 0>>,
     <<4, 0, 4, 0, 4, 0, 1, 4, 0, 90, 2>>,
     <<4, 0, 4, 0, 4, 0, 3, 4, 0, 90, 2, 0, 2, 0, 80, 2, 0>>,
     <<4, 0, 4, 0, 6, 0, 0>>,
     <<4, 0, 4, 0, 9, 0, 13>>,
     <<4, 0, 4, 0, 29, 0, 1, 2, 3, 4, 5>>,
     <<4, 0, 4, 0, 4, 0, 0, 4, 0, 90, 2, 0>>,
     <<4, 0, 4, 0, 4, 0, 4, 4, 0, 90, 2, 0, 2, 0, 80, 2, 0, 8, 0, 100, 1, 0,
       1, 0, 5, 1, 0>>,
     <<4, 0, 4, 0, 4, 1, 1, 4, 0, 90, 2, 0>>,
     <<4, 0, 4, 0, 6, 1, 0, 0>>,
     <<4, 0, 4, 0, 15, 0, 255, 255, 255, 255>>,
     <<4, 0, 4, 0, 23, 0, 0, 0>>,
     <<4, 0, 4, 0, 77, 0, 255, 0>>}

RxFrames == AcceptedFrames \cup RejectedFrames

RxRecv == {<<"data", f>> : f \in RxFrames} \cup {<<"again">>}

NextRx ==
    \/ Session
    \/ \E recv \in RxRecv : SocketReady({"IN"}, recv, NoFailEnv)

SpecRx == Init /\ [][NextRx]_vars

\* The step is the dispatch of a frame read from the socket.
FrameReceived ==
    /\ obs'.ev.name = "bt_source_dispatch"
    /\ obs'.ev.args[2][1] = "data"

ReceivedFrame == obs'.ev.args[2][2]

\* C15: when a battery frame is parsed and applied, the components absent
\* from the frame keep the level and status they had in Device State.
C15_AbsentComponentsRetained ==
    [][(FrameReceived /\ IsBatteryFrame(ReceivedFrame)) =>
        /\ RecordsFor(ReceivedFrame, "left") = {}
             => state'.battery.left = state.battery.left
        /\ RecordsFor(ReceivedFrame, "right") = {}
             => state'.battery.right = state.battery.right
        /\ RecordsFor(ReceivedFrame, "case") = {}
             => state'.battery.case_battery = state.battery.case_battery
      ]_vars

\* The components a parsed battery report carries a level for.
ComponentsWithLevel(b) ==
    {slot \in {"left", "right", "case"} :
        CASE slot = "left" -> b.left_level # -1
          [] slot = "right" -> b.right_level # -1
          [] OTHER -> b.case_level # -1}

\* C16: an accepted battery frame whose count byte is N yields exactly N
\* components, whatever component codes its N records hold (repeated or
\* unrecognised ones included).  Stated for the frames all of whose records
\* hold a level of at most 100, so that a component taken from the frame
\* shows as a level other than -1.
C16_ExactlyNComponents ==
    (/\ BatteryParsed
     /\ obs.packet.result = AAP_PARSE_OK
     /\ \A i \in 1..obs.frame[7] : BatteryRecord(obs.frame, i).level <= 100)
        => Cardinality(ComponentsWithLevel(obs.packet.data)) = obs.frame[7]

\* The outcome the protocol's rules give a buffer.
ClassifiedAs(data) ==
    IF Len(data) < 4 \/ SubSeq(data, 1, 4) # <<4, 0, 4, 0>>
    THEN AAP_PARSE_INVALID_HEADER
    ELSE IF Len(data) < 5 THEN AAP_PARSE_INCOMPLETE
    ELSE CASE data[5] = 4 ->
                IF Len(data) < 12 THEN AAP_PARSE_INCOMPLETE
                ELSE IF data[6] # 0 \/ data[7] \notin 1..3
                THEN AAP_PARSE_MALFORMED
                ELSE IF Len(data) < 7 + 5 * data[7]
                THEN AAP_PARSE_INCOMPLETE
                ELSE AAP_PARSE_OK
           [] data[5] = 6 ->
                IF Len(data) < 8 THEN AAP_PARSE_INCOMPLETE
                ELSE IF data[6] # 0 THEN AAP_PARSE_MALFORMED
                ELSE AAP_PARSE_OK
           [] data[5] = 9 ->
                IF Len(data) < 8 THEN AAP_PARSE_INCOMPLETE
                ELSE IF data[7] = 13
                THEN (IF data[8] \in 1..4 THEN AAP_PARSE_OK
                      ELSE AAP_PARSE_MALFORMED)
                ELSE IF data[7] \in {26, 40, 46} THEN AAP_PARSE_OK
                ELSE AAP_PARSE_MALFORMED
           [] data[5] = 29 ->
                IF Len(data) < 12 THEN AAP_PARSE_INCOMPLETE
                ELSE AAP_PARSE_OK
           [] data[5] = 75 -> AAP_PARSE_OK
           [] OTHER -> AAP_PARSE_UNKNOWN_OPCODE

\* C17: parse gives every buffer exactly one outcome: InvalidHeader when
\* the first four bytes are not 04 00 04 00, Incomplete when the buffer is
\* shorter than its opcode requires, UnknownOpcode exactly when the header
\* is valid and the opcode is none of 0x04/0x06/0x09/0x1D/0x4B, Malformed
\* when the payload violates the frame shape (battery count 0 or above 3,
\* a mode byte outside 1..4, an unrecognised control sub-opcode), and Ok
\* otherwise.
C17_ParseOutcomes ==
    CodecParsed("aap_parse_packet")
        => obs.packet.result = ClassifiedAs(obs.frame)

\* C18: a received frame whose parse result is not Ok (InvalidHeader,
\* Incomplete, Malformed or UnknownOpcode) is dropped: Device State is
\* unchanged, no bus signal is emitted, the media controller is not
\* invoked, and the transport stays Connected with its socket open.
C18_RejectedFrameDropped ==
    [][(/\ FrameReceived
        /\ aap_parse_packet(ReceivedFrame).result # AAP_PARSE_OK)
        => /\ state' = state
           /\ obs'.signals = <<>>
           /\ obs'.media = <<>>
           /\ media_control' = media_control
           /\ obs'.bt_events = <<>>
           /\ bt_conn' = bt_conn
           /\ bt_conn'.state = BT_STATE_CONNECTED
           /\ open_sockets' = open_sockets
      ]_vars

\* A battery frame with count 0 arrives after the peer reported ANC and a
\* battery level: both are still in Device State.
C18_Witness ==
    /\ obs.ev.name = "bt_source_dispatch"
    /\ obs.ev.args[2] = <<"data", <<4, 0, 4, 0, 4, 0, 0, 4, 0, 90, 2, 0>>>>
    /\ aap_parse_packet(obs.ev.args[2][2]).result = AAP_PARSE_MALFORMED
    /\ state.connected
    /\ state.noise_control_mode = NOISE_CONTROL_ANC
    /\ state.battery.left.level = 70
    /\ bt_conn.state = BT_STATE_CONNECTED

\* The transitions of the transport's state graph.
TransportGraph ==
    {<<BT_STATE_DISCONNECTED, BT_STATE_CONNECTING>>,
     <<BT_STATE_CONNECTING, BT_STATE_CONNECTED>>,
     <<BT_STATE_CONNECTED, BT_STATE_DISCONNECTED>>,
     <<BT_STATE_CONNECTED, BT_STATE_ERROR>>}

\* The states the transport goes through in a step: the one it was in,
\* then every state announced to the observer, in order.
AnnouncedPath == <<bt_conn.state>> \o obs'.bt_events

\* C19: every transport state change follows the graph Disconnected ->
\* Connecting -> Connected -> {Disconnected, Error} and every change is
\* announced to the observer.
C19_TransportGraph ==
    [][/\ \A i \in 1..Len(obs'.bt_events) :
             <<AnnouncedPath[i], AnnouncedPath[i + 1]>> \in TransportGraph
       /\ bt_conn'.state = AnnouncedPath[Len(AnnouncedPath)]
      ]_vars

\* The step is a BlueZ connected event.
BluezConnectedEvent == obs'.ev.name = "on_bluez_device_connected"

\* C20: when a connect attempt fails (socket creation or connect refusal)
\* the transport is downgraded to Disconnected, so that a BlueZ connected
\* event that finds the transport neither Connected nor Connecting starts
\* a new connect attempt.
C20_FailedConnectRetried ==
    [][BluezConnectedEvent =>
        /\ BT_STATE_ERROR \in Range(obs'.bt_events)
             => bt_conn'.state = BT_STATE_DISCONNECTED
        /\ bt_conn.state \notin {BT_STATE_CONNECTED, BT_STATE_CONNECTING}
             => obs'.bt_events # <<>>
      ]_vars

\* The step met one of the conditions on which the transport gives up its
\* channel: poll flags containing HUP, ERR or NVAL, a read of length zero,
\* a failed read, or a send failing with ECONNRESET, EPIPE or ENOTCONN.
ChannelLost ==
    \/ /\ obs'.ev.name \in {"bt_source_check", "bt_source_dispatch"}
       /\ obs'.ev.args[1] \cap {"HUP", "ERR", "NVAL"} # {}
    \/ /\ obs'.ev.name = "bt_source_dispatch"
       /\ obs'.ev.args[2][1] \in {"zero", "error"}
    \/ \E i \in 1..Len(obs'.tx) : obs'.tx[i].res = "reset"

\* C21: while Connected, a zero-length read, a send or receive failing
\* with ECONNRESET, EPIPE or ENOTCONN, or poll flags containing HUP, ERR or
\* NVAL (with or without readable data) make the transport close its
\* socket, become Disconnected and announce Disconnected exactly once.
C21_SelfDisconnect ==
    [][(bt_conn.state = BT_STATE_CONNECTED /\ ChannelLost)
        => /\ bt_conn'.socket_fd = -1
           /\ open_sockets' = open_sockets - 1
           /\ bt_conn'.state = BT_STATE_DISCONNECTED
           /\ obs'.bt_events = <<BT_STATE_DISCONNECTED>>
      ]_vars

(***************************************************************************)
(* bluez_monitor.c: the BlueZ observer.  What the bluetooth service        *)
(* answers when the observer reads a device back is an input of each       *)
(* handler: is_airpods is the result of device_is_airpods (FALSE when the  *)
(* Get of UUIDs fails or the AAP UUID is not listed), info the result of   *)
(* get_device_info (NULL when GetAll fails).  Every callback the observer  *)
(* invokes is recorded in the world's `bluez`.                             *)
(***************************************************************************)
BLUEZ_DEVICE_INTERFACE == "BLUEZ_DEVICE_INTERFACE"

BluezDeviceInfo(p, name, connected) ==
    [object_path |-> p, address |-> PeerAddress(p), name |-> name,
     connected |-> connected]

\* monitor->connected_callback(info, ...)
connected_callback(w, info, res) ==
    on_bluez_device_connected(
        [w EXCEPT !.bluez = Append(@, [kind |-> "connected", info |-> info])],
        info, res)

\* monitor->disconnected_callback(info, ...)
disconnected_callback(w, info) ==
    on_bluez_device_disconnected(
        [w EXCEPT !.bluez = Append(@, [kind |-> "disconnected",
                                      info |-> info])],
        info)

\* changed_props is the dictionary of the signal, a set of <<key, value>>.
on_properties_changed(w, object_path, iface, changed_props, is_airpods, info, res) ==
    IF iface # BLUEZ_DEVICE_INTERFACE THEN w
    ELSE IF ~\E kv \in changed_props : kv[1] = "Connected" THEN w
    ELSE IF ~is_airpods THEN w
    ELSE IF info = bluez_device_info_null THEN w
    ELSE IF <<"Connected", TRUE>> \in changed_props
    THEN connected_callback(
             [w EXCEPT !.bluez_monitor.known_devices[object_path] = info],
             info, res)
    ELSE disconnected_callback(
             [w EXCEPT !.bluez_monitor.known_devices[object_path] =
                          bluez_device_info_null],
             info)

\* The part of on_interfaces_added and of the loop body of
\* bluez_monitor_check_existing_devices that follows the test for the
\* Device1 interface.
TrackIfConnected(w, obj_path, is_airpods, info, res) ==
    IF is_airpods /\ info # bluez_device_info_null /\ info.connected
    THEN connected_callback(
             [w EXCEPT !.bluez_monitor.known_devices[obj_path] = info],
             info, res)
    ELSE w

on_interfaces_added(w, obj_path, has_device1, is_airpods, info, res) ==
    IF ~has_device1 THEN w
    ELSE TrackIfConnected(w, obj_path, is_airpods, info, res)

\* Faulty variant of on_interfaces_removed: the entry stays in the map.
on_interfaces_removed_mut(w, obj_path) ==
    LET info == w.bluez_monitor.known_devices[obj_path]
    IN IF info # bluez_device_info_null
       THEN disconnected_callback(w, info)
       ELSE w

on_interfaces_removed(w, obj_path) ==
    LET info == w.bluez_monitor.known_devices[obj_path]
    IN IF info # bluez_device_info_null
       THEN [disconnected_callback(w, info) EXCEPT
                !.bluez_monitor.known_devices[obj_path] =
                    bluez_device_info_null]
       ELSE w

\* One iteration of the loop of bluez_monitor_check_existing_devices, on
\* the next object of the GetManagedObjects reply.
bluez_monitor_check_existing_devices(w, has_device1, is_airpods, info, res) ==
    LET object_path == Head(w.bluez_monitor.walk)
        w1 == [w EXCEPT !.bluez_monitor.walk = Tail(@)]
    IN IF has_device1
       THEN TrackIfConnected(w1, object_path, is_airpods, info, res)
       ELSE w1

(***************************************************************************)
(* SpecBluez: the observer on a system bus where AAP devices connect,      *)
(* disconnect, appear and disappear, driving the session of main.c.  The   *)
(* daemon starts with any list of device objects to walk.                  *)
(***************************************************************************)
\* What the observer reads back about the object path p, and how the
\* connect attempt of main.c goes if one is made: the device does not list
\* the AAP UUID (or the Get fails), GetAll fails, the device is not
\* connected, or it is connected, with or without a Name property.
Readbacks(p) ==
    {[is_airpods |-> FALSE, info |-> bluez_device_info_null, res |-> "ok"],
     [is_airpods |-> TRUE, info |-> bluez_device_info_null, res |-> "ok"],
     [is_airpods |-> TRUE, info |-> BluezDeviceInfo(p, PeerName(p), FALSE),
      res |-> "ok"]}
    \cup {[is_airpods |-> TRUE, info |-> BluezDeviceInfo(p, name, TRUE),
           res |-> res] :
             name \in {PeerName(p), NULL}, res \in {"ok", "connect_failed"}}

\* The property dictionaries a PropertiesChanged signal carries.
ChangedProps ==
    {{<<"Connected", TRUE>>}, {<<"ServicesResolved", TRUE>>},
     {<<"Connected", FALSE>>, <<"ServicesResolved", FALSE>>}}

\* The PropertiesChanged signals of an object: interface and dictionary.
PropertySignals ==
    {<<BLUEZ_DEVICE_INTERFACE, props>> : props \in ChangedProps}
    \cup {<<"org.bluez.MediaControl1", {<<"Connected", TRUE>>}>>}

\* The event loop runs once main() has finished the startup walk.
MainLoopRunning == pc = "idle" /\ bluez_monitor.walk = <<>>

CheckExistingDevices(has_device1, is_airpods, info, res) ==
    /\ pc = "idle"
    /\ bluez_monitor.walk # <<>>
    /\ Commit(bluez_monitor_check_existing_devices(World, has_device1,
                                                   is_airpods, info, res),
              Ev("bluez_monitor_check_existing_devices",
                 <<Head(bluez_monitor.walk)>>))

PropertiesChanged(p, iface, changed_props, is_airpods, info, res) ==
    /\ MainLoopRunning
    /\ Commit(on_properties_changed(World, p, iface, changed_props,
                                    is_airpods, info, res),
              Ev("on_properties_changed", <<p, iface, changed_props>>))

InterfacesAdded(p, has_device1, is_airpods, info, res) ==
    /\ MainLoopRunning
    /\ Commit(on_interfaces_added(World, p, has_device1, is_airpods, info,
                                  res),
              Ev("on_interfaces_added", <<p>>))

InterfacesRemoved(p) ==
    /\ MainLoopRunning
    /\ Commit(on_interfaces_removed(World, p),
              Ev("on_interfaces_removed", <<p>>))

\* The lists of objects GetManagedObjects can return: every list of
\* distinct device objects.
Walks ==
    {walk \in UNION {[1..n -> Peers] : n \in 0..NumPeers} :
        \A i, j \in 1..Len(walk) : i # j => walk[i] # walk[j]}

InitBluez ==
    \E walk \in Walks :
        InitFrom([Startup(NoConfigFile, TRUE, TRUE,
                          [n \in PlayerNames |-> "Absent"])
                  EXCEPT !.bluez_monitor.walk = walk])

NextBluez ==
    \/ \E p \in Peers, has_device1 \in BOOLEAN :
          \E rb \in Readbacks(p) :
             /\ bluez_monitor.walk # <<>>
             /\ p = Head(bluez_monitor.walk)
             /\ CheckExistingDevices(has_device1, rb.is_airpods, rb.info,
                                     rb.res)
    \/ \E p \in Peers, sig \in PropertySignals :
          \E rb \in Readbacks(p) :
             PropertiesChanged(p, sig[1], sig[2], rb.is_airpods, rb.info,
                               rb.res)
    \/ \E p \in Peers, has_device1 \in BOOLEAN :
          \E rb \in Readbacks(p) :
             InterfacesAdded(p, has_device1, rb.is_airpods, rb.info, rb.res)
    \/ \E p \in Peers : InterfacesRemoved(p)
    \/ MainLoopRunning /\ OnBusAcquired
    \/ ConnectedSendHandshake("ok")
    \/ ConnectedSendSetFeatures("ok")
    \/ ConnectedSendRequestNotifications("ok")
    \/ ConnectedSetDevice
    \/ MainLoopRunning /\ SocketReady({"IN"}, <<"zero">>, NoFailEnv)

SpecBluez == InitBluez /\ [][NextBluez]_vars

\* The observer reported, in this step, the disconnection of the peer the
\* transport is connected to / of some other device.
DisconnectedEventFor(address) ==
    \E i \in 1..Len(obs'.bluez) :
        /\ obs'.bluez[i].kind = "disconnected"
        /\ obs'.bluez[i].info.address = address

DisconnectedEventForOther(address) ==
    \E i \in 1..Len(obs'.bluez) :
        /\ obs'.bluez[i].kind = "disconnected"
        /\ obs'.bluez[i].info.address # address

\* C22: an established session is destroyed only by a BlueZ disconnected
\* event for the same peer or a socket-level error or hangup; a BlueZ
\* disconnected event for another AAP device leaves the transport
\* Connected and Device State unchanged.
C22_SessionDestroyedOnlyBy ==
    [][bt_conn.state = BT_STATE_CONNECTED
        => /\ (bt_conn'.state # BT_STATE_CONNECTED
               \/ (state.connected /\ ~state'.connected))
                => DisconnectedEventFor(bt_conn.address) \/ ChannelLost
           /\ (DisconnectedEventForOther(bt_conn.address)
               /\ ~DisconnectedEventFor(bt_conn.address))
                => bt_conn'.state = BT_STATE_CONNECTED /\ state' = state
      ]_vars

\* C23: the BlueZ observer suppresses duplicates: for any object path it
\* never emits two consecutive events of the same kind (a repeated
\* Connected=true, or an InterfacesAdded after the startup walk, for a
\* tracked path emits no second connected event; a repeated
\* Connected=false emits no second disconnected event).
C23_DuplicatesSuppressed ==
    [][\A i \in 1..Len(obs'.bluez) :
          obs'.bluez[i].kind # last_event[obs'.bluez[i].info.object_path]
      ]_vars

\* The step handles a signal telling that the object path p is gone or no
\* longer connected: InterfacesRemoved, or PropertiesChanged of the device
\* interface with Connected=false.
GoneSignal(p) ==
    \/ obs'.ev = Ev("on_interfaces_removed", <<p>>)
    \/ /\ obs'.ev.name = "on_properties_changed"
       /\ obs'.ev.args[1] = p
       /\ obs'.ev.args[2] = BLUEZ_DEVICE_INTERFACE
       /\ <<"Connected", FALSE>> \in obs'.ev.args[3]

\* C24: for every object path tracked in the observer's map, an
\* InterfacesRemoved for the path or a PropertiesChanged with
\* Connected=false produces a disconnected event carrying the cached
\* address and name and removes the path from the map, also when the
\* device can no longer be read back from the bluetooth service.
C24_DisconnectFromCache ==
    [][\A p \in Peers :
          (bluez_monitor.known_devices[p] # bluez_device_info_null
           /\ GoneSignal(p))
          => /\ Len(obs'.bluez) = 1
             /\ obs'.bluez[1].kind = "disconnected"
             /\ obs'.bluez[1].info.address
                  = bluez_monitor.known_devices[p].address
             /\ obs'.bluez[1].info.name = bluez_monitor.known_devices[p].name
             /\ bluez_monitor'.known_devices[p] = bluez_device_info_null
      ]_vars

\* The per-peer properties of the bus interface: all but Connected and the
\* global EarPauseMode.
PerPeerSrcProperties == SrcProperties \ {"Connected"}

PerPeerExtProperties == ExtProperties \ {"EarPauseMode"}

\* C25: whenever nothing is connected (Device State connected = false),
\* every per-peer property read on the bus has the value it has at
\* startup: name and address empty, model Unknown, battery levels -1,
\* charging flags false, noise control off, conversational awareness
\* false, in-ear flags false, adaptive level and listening-mode flags at
\* their initial values.
C25_SentinelsWhenDisconnected ==
    ~state.connected
        => /\ \A property_name \in PerPeerSrcProperties :
                get_property(state, property_name)
                    = get_property(airpods_state_init, property_name)
           /\ \A property_name \in PerPeerExtProperties :
                get_property_ext(state, property_name)
                    = get_property_ext(airpods_state_init, property_name)

(***************************************************************************)
(* SpecInbound: a session in which the peer reports its listening modes,   *)
(* its metadata and its ear detection, while the bus client sets the       *)
(* listening modes.                                                        *)
(***************************************************************************)
FRAME_LISTENING_MODES(mask) == <<4, 0, 4, 0, 9, 0, 26, mask, 0, 0, 0>>

FRAME_EAR_DETECTION(primary, secondary) ==
    <<4, 0, 4, 0, 6, 0, primary, secondary>>

STR_A2699 == <<65, 50, 54, 57, 57>>                              \* "A2699"
STR_A2096 == <<65, 50, 48, 57, 54>>                              \* "A2096"
STR_A2032 == <<65, 50, 48, 51, 50>>                              \* "A2032"
STR_A9999 == <<65, 57, 57, 57, 57>>                              \* "A9999"
STR_A269 == <<65, 50, 54, 57>>                                   \* "A269"

\* Metadata frame: header, opcode, six bytes, then the NUL-terminated
\* device name ("AP"), model number and manufacturer ("Apple").
FRAME_METADATA(model_number) ==
    <<4, 0, 4, 0, 29, 0, 1, 2, 3, 4, 5, 6>> \o <<65, 80, 0>>
        \o model_number \o <<0>> \o <<65, 112, 112, 108, 101, 0>>

InboundMasks == {0, 1, 6, 9, 14, 15}

EarStatuses == {0, 1, 2}

ModelNumbers == {STR_A2699, STR_A2096, STR_A2032, STR_A9999, STR_A269, <<>>}

InboundFrames ==
    {FRAME_LISTENING_MODES(mask) : mask \in InboundMasks}
    \cup {FRAME_EAR_DETECTION(primary, secondary) :
            primary \in EarStatuses, secondary \in EarStatuses}
    \cup {FRAME_METADATA(model_number) : model_number \in ModelNumbers}

NextInbound ==
    \/ Session
    \/ \E data \in InboundFrames :
          SocketReady({"IN"}, <<"data", data>>, NoFailEnv)
    \/ \E m \in CmdListeningModes :
          SetListeningModes(m[1], m[2], m[3], m[4], "ok", TRUE)

SpecInbound == Init /\ [][NextInbound]_vars

\* Number of listening modes enabled in Device State.
EnabledListeningModes(s) ==
    Cardinality({f \in {"off_enabled", "transparency_enabled", "anc_enabled",
                        "adaptive_enabled"} : s.listening_modes[f]})

\* C26: whenever the peer is connected, at least two of Off, Transparency,
\* ANC and Adaptive are enabled in the listening modes of Device State,
\* after any sequence of SetListeningModes commands and inbound
\* listening-modes frames.
C26_AtLeastTwoModes ==
    state.connected => EnabledListeningModes(state) >= 2

\* The model each model number of ModelNumbers stands for in the table of
\* airpods_state.c.
ExpectedModel(model_number) ==
    CASE model_number = STR_A2699 -> AIRPODS_MODEL_PRO_2
      [] model_number = STR_A2096 -> AIRPODS_MODEL_MAX
      [] model_number = STR_A2032 -> AIRPODS_MODEL_2
      [] OTHER -> AIRPODS_MODEL_UNKNOWN

\* The signals of the step, in order: the property name of a
\* property-changed signal, the signal name of any other.
PropertiesSignalled ==
    [i \in 1..Len(obs'.signals) |->
        IF obs'.signals[i].name = "PropertiesChanged"
        THEN obs'.signals[i].args[1] ELSE obs'.signals[i].name]

C28_EarDetection ==
    /\ [](state.ear_detection.primary_left)
    /\ [][\A primary, secondary \in EarStatuses :
            (/\ FrameReceived
             /\ ReceivedFrame = FRAME_EAR_DETECTION(primary, secondary))
            => /\ state'.ear_detection.left_in_ear = (primary = 0)
               /\ state'.ear_detection.right_in_ear = (secondary = 0)
               /\ state'.ear_detection.primary_left
               /\ service_connection
                    => /\ PropertiesSignalled
                            = <<"EarDetectionChanged", "LeftInEar",
                                "RightInEar">>
                       /\ obs'.signals[1].args
                            = <<primary = 0, secondary = 0>>
               /\ Len(obs'.media) >= 1
               /\ obs'.media[1].op = "on_ear_detection_changed"
               /\ media_control'.prev_state_valid
               /\ media_control'.prev_left_in_ear = (primary = 0)
               /\ media_control'.prev_right_in_ear = (secondary = 0)
        ]_vars

\* The frame "primary in case, secondary in ear" has been handled with the
\* bus object registered: Left is not in ear, Right is.
C28_Witness ==
    /\ obs.ev.name = "bt_source_dispatch"
    /\ obs.ev.args[2] = <<"data", FRAME_EAR_DETECTION(2, 0)>>
    /\ ~state.ear_detection.left_in_ear
    /\ state.ear_detection.right_in_ear
    /\ obs.signals # <<>>
    /\ obs.signals[1] = [name |-> "EarDetectionChanged",
                         args |-> <<FALSE, TRUE>>]

\* The ear-pause policies: Disabled, One-Out, Both-Out.
EarPausePolicies == {EAR_PAUSE_DISABLED, EAR_PAUSE_ONE_OUT, EAR_PAUSE_BOTH_OUT}

\* C29: the ear-pause policy held in Device State, in the media controller
\* and in the persisted global config is always one of 0 Disabled,
\* 1 One-Out, 2 Both-Out, after any sequence of SetEarPauseMode(i) calls
\* with arbitrary integer i and config loads.
C29_PolicyInRange ==
    /\ state.ear_pause_mode \in EarPausePolicies
    /\ media_control.allocated
         => media_control.ear_pause_mode \in EarPausePolicies
    /\ config.ear_pause_mode \in EarPausePolicies
    /\ config_file.exists => config_file.ear_pause_mode \in EarPausePolicies

(***************************************************************************)
(* SpecStart: the outcome of the bus-name request, and shutdown.           *)
(*                                                                         *)
(* dbus_service_start only files the request: g_bus_own_name returns an    *)
(* owner id, which is never 0, so dbus_service_start returns true and      *)
(* main() goes on to run the event loop.  The outcome arrives later, as    *)
(* one of the callbacks on_bus_acquired, on_name_acquired, on_name_lost.   *)
(***************************************************************************)
MainLoopAlive == ~exit_status.exited

\* g_message only.
on_name_acquired(w) == w

\* g_warning only: the loop is not asked to quit and nothing is recorded.
on_name_lost(w) == w

\* What main() does once g_main_loop_run returns.
cleanup(w) ==
    LET w1 == [bt_connection_disconnect(w) EXCEPT !.bt_conn = bt_conn_null]
    IN [w1 EXCEPT !.bluez_monitor = bluez_monitor_new,
                  !.service_connection = FALSE,
                  !.media_control = media_control_null,
                  !.pending_address = NULL,
                  !.pending_name = NULL,
                  !.state.device_name = NULL,
                  !.state.device_address = NULL]

\* on_sigint and on_sigterm: g_main_loop_quit, then main() cleans up and
\* returns 0.
on_sigint(w) ==
    [cleanup(w) EXCEPT !.exit_status = [exited |-> TRUE, code |-> 0]]

\* The bus refuses the name, or the session bus cannot be reached (then
\* on_bus_acquired has not run), or the name is taken away later.
OnNameLost ==
    /\ MainLoopAlive
    /\ pc = "idle"
    /\ bus_name # "lost"
    /\ Commit([on_name_lost(World) EXCEPT !.bus_name = "lost"],
              Ev("on_name_lost", <<>>))

OnNameAcquired ==
    /\ MainLoopAlive
    /\ pc = "idle"
    /\ service_connection
    /\ bus_name = "pending"
    /\ Commit([on_name_acquired(World) EXCEPT !.bus_name = "acquired"],
              Ev("on_name_acquired", <<>>))

Sigint ==
    /\ MainLoopAlive
    /\ pc = "idle"
    /\ Commit(on_sigint(World), Ev("on_sigint", <<>>))

NextStart ==
    \/ MainLoopAlive /\ bus_name = "pending" /\ OnBusAcquired
    \/ OnNameAcquired
    \/ OnNameLost
    \/ Sigint
    \/ \E p \in Peers, res \in {"ok", "connect_failed"} :
          MainLoopAlive /\ BluezDeviceConnected(p, res)
    \/ \E p \in Peers : MainLoopAlive /\ BluezDeviceDisconnected(p)
    \/ MainLoopAlive /\ ConnectedSendHandshake("ok")
    \/ MainLoopAlive /\ ConnectedSendSetFeatures("ok")
    \/ MainLoopAlive /\ ConnectedSendRequestNotifications("ok")
    \/ MainLoopAlive /\ ConnectedSetDevice

SpecStart == Init /\ [][NextStart]_vars

\* C30: when the bus name is not acquired at startup (on_name_lost arrives
\* while the request is still pending), the daemon terminates with exit
\* code 1 instead of going on with its event loop.
C30_NameNotAcquiredExits ==
    [][(bus_name = "pending" /\ bus_name' = "lost")
          => (exit_status'.exited /\ exit_status'.code = 1)]_vars

(***************************************************************************)
(* Publication of received frames.                                         *)
(***************************************************************************)
\* What the bus reads for a property from Device State `s`.
PropertyValue(s, property_name) ==
    IF property_name \in SrcProperties THEN get_property(s, property_name)
    ELSE get_property_ext(s, property_name)

\* The property-changed signals of the step, in order, as <<name, value>>.
PropertiesPublished ==
    LET idx == {i \in 1..Len(obs'.signals) :
                    obs'.signals[i].name = "PropertiesChanged"}
        F[n \in 0..Len(obs'.signals)] ==
            IF n = 0 THEN <<>>
            ELSE IF n \in idx THEN Append(F[n - 1], obs'.signals[n].args)
            ELSE F[n - 1]
    IN F[Len(obs'.signals)]

\* The values the frames of SpecRx carry for the properties they report.
ValuesCarried(frame) ==
    CASE frame = FRAME_BATTERY_S1 ->
           <<<<"BatteryLeft", 90>>, <<"BatteryRight", 80>>,
             <<"BatteryCase", 100>>>>
      [] frame = FRAME_NOISE_CONTROL_ANC -> <<<<"NoiseControlMode", "anc">>>>
      [] frame = FRAME_EAR_IN_IN ->
           <<<<"LeftInEar", TRUE>>, <<"RightInEar", TRUE>>>>
      [] frame = FRAME_EAR_OUT_IN ->
           <<<<"LeftInEar", FALSE>>, <<"RightInEar", TRUE>>>>
      [] frame = FRAME_CA_ENABLED -> <<<<"ConversationalAwareness", TRUE>>>>

FramesWithValues ==
    {FRAME_BATTERY_S1, FRAME_NOISE_CONTROL_ANC, FRAME_EAR_IN_IN,
     FRAME_EAR_OUT_IN, FRAME_CA_ENABLED}

\* C31: a received frame is applied to Device State and published within
\* the one dispatch that read it, so frames are applied and published in
\* the order received: every property-changed signal of the dispatch
\* carries the value Device State holds when the dispatch ends, and for a
\* frame that carries values the signals are those values, in the order
\* of the handler.
C31_PublishedInOrder ==
    [][FrameReceived =>
        /\ \A i \in 1..Len(PropertiesPublished) :
              PropertiesPublished[i][2]
                 = PropertyValue(state', PropertiesPublished[i][1])
        /\ (ReceivedFrame \in FramesWithValues /\ service_connection)
              => PropertiesPublished = ValuesCarried(ReceivedFrame)
        /\ (ReceivedFrame \in RejectedFrames \/ ~service_connection)
              => PropertiesPublished = <<>>
      ]_vars

\* Noise-control mode ANC has been received from a connected peer with the
\* bus object registered, and published.
C31_Witness ==
    /\ obs.ev.name = "bt_source_dispatch"
    /\ obs.ev.args[2] = <<"data", FRAME_NOISE_CONTROL_ANC>>
    /\ state.connected
    /\ state.noise_control_mode = NOISE_CONTROL_ANC
    /\ Len(obs.signals) = 2
    /\ obs.signals[2] = [name |-> "PropertiesChanged",
                         args |-> <<"NoiseControlMode", "anc">>]

(***************************************************************************)
(* The socket of the transport.                                            *)
(***************************************************************************)
SocketOpen == bt_conn.socket_fd >= 0

\* C32: the transport owns at most one L2CAP socket: a socket is open only
\* in Connecting and Connected; in Disconnected and Error the socket is
\* closed and no event-loop source is attached; a connect request that
\* finds the state other than Disconnected opens no socket.
C32_OneSocket ==
    /\ [](/\ open_sockets = IF SocketOpen THEN 1 ELSE 0
          /\ SocketOpen
               => bt_conn.state \in {BT_STATE_CONNECTING, BT_STATE_CONNECTED}
          /\ bt_conn.state \in {BT_STATE_DISCONNECTED, BT_STATE_ERROR}
               => ~SocketOpen /\ ~bt_conn.source)
    /\ [][(/\ obs'.ev.name = "on_bluez_device_connected"
           /\ bt_conn.state # BT_STATE_DISCONNECTED)
          => /\ open_sockets' = open_sockets
             /\ bt_conn' = bt_conn
             /\ obs'.bt_events = <<>>]_vars

\* A connect request arrived while the socket of the session was open, and
\* the transport still owns that one socket.
C32_Witness ==
    /\ obs.ev.name = "on_bluez_device_connected"
    /\ obs.bt_events = <<>>
    /\ bt_conn.state = BT_STATE_CONNECTED
    /\ bt_conn.source
    /\ open_sockets = 1

\* C33: whenever no callback is running, the connected flag of Device
\* State is true exactly when the transport is Connected, also after a
\* send of the initialization triplet has failed with a connection reset.
C33_ConnectedFlagMatchesTransport ==
    pc = "idle" => (state.connected <=> bt_conn.state = BT_STATE_CONNECTED)

(***************************************************************************)
(* The DeviceConnected / DeviceDisconnected signals.                       *)
(***************************************************************************)
\* The device signals `sigs`, emitted in this order after `prev`, alternate
\* and each DeviceDisconnected repeats the arguments of the DeviceConnected
\* before it.
RECURSIVE Alternate(_, _)
Alternate(prev, sigs) ==
    IF sigs = <<>> THEN TRUE
    ELSE /\ IF Head(sigs).name = "DeviceConnected"
            THEN prev.name # "DeviceConnected"
            ELSE prev.name = "DeviceConnected" /\ prev.args = Head(sigs).args
         /\ Alternate(Head(sigs), Tail(sigs))

\* C34: the DeviceConnected and DeviceDisconnected signals on the bus
\* strictly alternate, starting with DeviceConnected, and each
\* DeviceDisconnected carries the address and name of the DeviceConnected
\* before it.
C34_DeviceSignalsAlternate ==
    [][Alternate(last_device_signal, DeviceSignals(obs'.signals))]_vars

\* C35: a BlueZ connected event that arrives while the transport is
\* Connected is dropped: the pending identity, Device State and the
\* transport are unchanged, no frame is sent and no signal is emitted.
C35_ConnectedEventDropped ==
    [][(/\ obs'.ev.name = "on_bluez_device_connected"
        /\ bt_conn.state = BT_STATE_CONNECTED)
       => /\ pending_address' = pending_address
          /\ pending_name' = pending_name
          /\ state' = state
          /\ bt_conn' = bt_conn
          /\ open_sockets' = open_sockets
          /\ pc' = pc
          /\ obs'.tx = <<>>
          /\ obs'.signals = <<>>
          /\ obs'.bt_events = <<>>]_vars

\* Peer 2 was reported connected during the session of peer 1, which goes
\* on.
C35_Witness ==
    /\ obs.ev = Ev("on_bluez_device_connected", <<2>>)
    /\ bt_conn.state = BT_STATE_CONNECTED
    /\ pending_address = PeerAddress(1)
    /\ state.connected
    /\ state.device_address = PeerAddress(1)

(***************************************************************************)
(* SpecEar: the media controller driven only by ear-detection events and   *)
(* changes of the ear-pause policy, with players that come, go and change  *)
(* their playback status.                                                  *)
(***************************************************************************)
NextEar ==
    \/ \E mode \in MediaModes : MediaSetEarPauseMode(mode)
    \/ \E l \in BOOLEAN, r \in BOOLEAN,
          env \in MediaEnvs(players, media_control) :
          MediaOnEarDetectionChanged(l, r, env)
    \/ \E n \in PlayerNames, status \in PlaybackStatus \cup {"Absent"} :
          PlayerChanged(n, status)

SpecEar == InitMedia /\ [][NextEar]_vars

\* C36: an ear-detection event never invokes pause-all while the players
\* paused by the previous pause-all still await their resume, so a paused
\* player leaves the set only through a resume that calls Play on it.
C36_NoPauseWhileAwaitingResume ==
    [][IsEarCall' =>
        /\ CountOp(obs'.media, "pause_all") > 0
             => media_control.paused_players = <<>>
        /\ \A n \in Range(media_control.paused_players) :
              \/ n \in Range(media_control'.paused_players)
              \/ n \in Range(PlayersOf(obs'.media, "Play"))
      ]_vars

\* C37: SetListeningModes changes the listening modes of Device State and
\* the persisted profile of the peer only if the listening-modes frame was
\* handed to the transport; when the send fails they are left as they were.
C37_ListeningModesOnlyIfSent ==
    [][(/\ obs'.ev.name = "SetListeningModes"
        /\ ~\E i \in 1..Len(obs'.tx) : obs'.tx[i].res = "ok")
       => /\ state'.listening_modes = state.listening_modes
          /\ devices_file' = devices_file]_vars

\* C38: no frame is written to the socket unless the transport is
\* Connected and the socket is open when the send is attempted; an attempt
\* in any other state writes nothing and changes no transport state.
C38_SendOnlyWhenConnected ==
    [][\A i \in 1..Len(obs'.tx) :
          /\ obs'.tx[i].res # "refused"
               => /\ bt_conn.state = BT_STATE_CONNECTED
                  /\ bt_conn.socket_fd >= 0
                  /\ \A j \in 1..(i - 1) : obs'.tx[j].res \in {"ok", "other"}
          /\ (\A j \in 1..Len(obs'.tx) : obs'.tx[j].res = "refused")
               => /\ bt_conn' = bt_conn
                  /\ open_sockets' = open_sockets
                  /\ init_written' = init_written
                  /\ obs'.bt_events = <<>>]_vars

\* The handshake send was reset, and the set-features send that followed
\* in the same handler was refused.
C38_Witness ==
    /\ obs.ev.name = "bt_connection_send_set_features"
    /\ Len(obs.tx) = 1
    /\ obs.tx[1].res = "refused"
    /\ bt_conn.state = BT_STATE_DISCONNECTED
    /\ bt_conn.socket_fd < 0
    /\ init_written = <<>>

\* C39: an object path is in the known-device map of the BlueZ observer
\* exactly when the last event the observer emitted for the path was
\* connected, whatever PropertiesChanged, InterfacesAdded and
\* InterfacesRemoved signals arrived and whatever the startup walk found.
C39_KnownIffLastConnected ==
    \A p \in Peers :
        (bluez_monitor.known_devices[p] # bluez_device_info_null)
            <=> (last_event[p] = "connected")

\* The object of peer 1 was removed after the observer had reported it
\* connected, while peer 2 is still tracked.
C39_Witness ==
    /\ obs.ev.name = "on_interfaces_removed"
    /\ obs.ev.args[1] = 1
    /\ obs.bluez # <<>>
    /\ last_event[1] = "disconnected"
    /\ bluez_monitor.known_devices[1] = bluez_device_info_null
    /\ bluez_monitor.known_devices[2] # bluez_device_info_null

\* C40: after startup and after any sequence of SetEarPauseMode calls the
\* copies of the ear-pause mode are equal: the one of Device State, the one
\* the edge detector of the media controller uses, and the one of the
\* global config.
C40_EarPauseCopiesEqual ==
    /\ state.ear_pause_mode = config.ear_pause_mode
    /\ media_control.allocated
         => media_control.ear_pause_mode = config.ear_pause_mode

====
